---------------------------- MODULE Spec2Model ----------------------------
(***************************************************************************)
(* A model of reorder-python-imports (src/reorder_python_imports.py).      *)
(*                                                                         *)
(* A text is a sequence of lexical atoms.  Every atom is one column wide:  *)
(* the line feed, the carriage return, the form feed, the blank, the       *)
(* comment sign, a string delimiter, and the words and operators of an     *)
(* import statement.  The single blank that separates two words is not     *)
(* written; a " " atom is an additional blank (indentation, padding).      *)
(***************************************************************************)
EXTENDS Integers, Sequences, FiniteSets, TLC

(***************************************************************************)
(* Atoms                                                                   *)
(***************************************************************************)
LF == "\n"
CR == "\r"
FF == "\f"
SP == " "
HASH == "#"
QUOTE == "Q"
NOREORDER == "noreorder"
KW_IMPORT == "import"
KW_FROM == "from"
KW_AS == "as"
DOT == "."
COMMA == ","

\* identifiers that occur as module names, symbols and aliases
Idents == {"a", "b", "p", "t", "x", "y"}
Operators == {DOT, COMMA}
Blanks == {SP, FF}

Min(a, b) == IF a < b THEN a ELSE b

\* s[a:b] of Python for 0 <= a, 0 <= b
Slice(s, a, b) == IF a >= Min(b, Len(s)) THEN << >> ELSE SubSeq(s, a + 1, Min(b, Len(s)))
\* s[a:] of Python for 0 <= a
SliceFrom(s, a) == Slice(s, a, Len(s))

RECURSIVE Flatten(_)
Flatten(ss) == IF ss = << >> THEN << >> ELSE Head(ss) \o Flatten(Tail(ss))

(***************************************************************************)
(* tokenize.generate_tokens, as far as partition_source looks at it: the   *)
(* type of a token, its start and end (row, column), whether a comment     *)
(* holds 'noreorder', and the text of a name.  Rows are cut at line feeds  *)
(* only.  The stream ends with ENDMARKER, or with TOKENERROR where the     *)
(* generator raises.  DEDENT tokens are left out: partition_source breaks  *)
(* out of its loop at the first INDENT token.                             *)
(***************************************************************************)
Tok(type, text, srow, scol, erow, ecol) ==
    [type |-> type, text |-> text, srow |-> srow, scol |-> scol, erow |-> erow, ecol |-> ecol]

\* index of the first line feed at or after i, Len(s) + 1 when there is none
LineEnd(s, i) ==
    IF \E j \in i..Len(s) : s[j] = LF
    THEN CHOOSE j \in i..Len(s) : s[j] = LF /\ \A k \in i..(j - 1) : s[k] # LF
    ELSE Len(s) + 1

\* index of the first string delimiter after i, 0 when there is none
ClosingQuote(s, i) ==
    IF \E j \in (i + 1)..Len(s) : s[j] = QUOTE
    THEN CHOOSE j \in (i + 1)..Len(s) : s[j] = QUOTE /\ \A k \in (i + 1)..(j - 1) : s[k] # QUOTE
    ELSE 0

\* index of the first atom of the row that holds index i
RowStart(s, i) ==
    IF \E j \in 1..(i - 1) : s[j] = LF
    THEN 1 + CHOOSE j \in 1..(i - 1) : s[j] = LF /\ \A k \in (j + 1)..(i - 1) : s[k] # LF
    ELSE 1

LineFeedsIn(s, i, j) == Cardinality({k \in i..j : s[k] = LF})

\* last_line.strip().startswith('#') for the row that starts at index i
StripStartsWithHash(s, i) ==
    \E j \in i..Len(s) : s[j] = HASH /\ \A k \in i..(j - 1) : s[k] \in Blanks

HasNoreorder(s, i, j) == \E k \in i..j : s[k] = NOREORDER

\* the tokens from index i on; bol: at the beginning of a new statement row
RECURSIVE Scan(_, _, _, _, _)
Scan(s, i, row, col, bol) ==
    IF i > Len(s)
    THEN IF bol
         THEN \* col = 0: readline gave ''; col > 0: a last row of blanks only
              << Tok("ENDMARKER", "", row, 0, row, 0) >>
         ELSE (IF StripStartsWithHash(s, RowStart(s, i))
               THEN << >>
               ELSE << Tok("NEWLINE", "", row, col, row, col + 1) >>)
              \o << Tok("ENDMARKER", "", row + 1, 0, row + 1, 0) >>
    ELSE LET ch == s[i] IN
         IF bol /\ ch \in Blanks
         THEN Scan(s, i + 1, row, col + 1, TRUE)
         ELSE IF bol /\ ch = LF
         THEN << Tok("NL", "", row, col, row, col + 1) >> \o Scan(s, i + 1, row + 1, 0, TRUE)
         ELSE IF bol /\ ch = HASH
         THEN LET e == LineEnd(s, i)
                  c == col + (e - i)
                  comment == Tok("COMMENT", IF HasNoreorder(s, i, e - 1) THEN NOREORDER ELSE "",
                                 row, col, row, c)
              IN  IF e > Len(s)
                  THEN << comment, Tok("NL", "", row, c, row, c),
                          Tok("ENDMARKER", "", row + 1, 0, row + 1, 0) >>
                  ELSE << comment, Tok("NL", "", row, c, row, c + 1) >>
                       \o Scan(s, e + 1, row + 1, 0, TRUE)
         ELSE IF bol
         THEN \* a statement begins; its indentation is measured with the form feed resetting it
              LET indented == \E j \in RowStart(s, i)..(i - 1) :
                                  s[j] = SP /\ \A k \in (j + 1)..(i - 1) : s[k] # FF
              IN  (IF indented THEN << Tok("INDENT", "", row, 0, row, col) >> ELSE << >>)
                  \o Scan(s, i, row, col, FALSE)
         ELSE IF ch \in Blanks
         THEN Scan(s, i + 1, row, col + 1, FALSE)
         ELSE IF ch = LF
         THEN << Tok("NEWLINE", "", row, col, row, col + 1) >> \o Scan(s, i + 1, row + 1, 0, TRUE)
         ELSE IF ch = HASH
         THEN LET e == LineEnd(s, i)
              IN  << Tok("COMMENT", IF HasNoreorder(s, i, e - 1) THEN NOREORDER ELSE "",
                         row, col, row, col + (e - i)) >>
                  \o Scan(s, e, row, col + (e - i), FALSE)
         ELSE IF ch = QUOTE
         THEN LET q == ClosingQuote(s, i)
              IN  IF q = 0
                  THEN << Tok("TOKENERROR", "", row, col, row, col) >>
                  ELSE LET erow == row + LineFeedsIn(s, i, q)
                           ecol == IF erow = row THEN col + (q - i) + 1
                                   ELSE q - RowStart(s, q) + 1
                       IN  << Tok("STRING", "", row, col, erow, ecol) >>
                           \o Scan(s, q + 1, erow, ecol, FALSE)
         ELSE << Tok(IF ch \in Operators THEN "OP" ELSE "NAME", ch, row, col, row, col + 1) >>
              \o Scan(s, i + 1, row, col + 1, FALSE)

generate_tokens(s) == Scan(s, 1, 1, 0, TRUE)

(***************************************************************************)
(* Regions (CodePartition) and partition_source                            *)
(***************************************************************************)
PRE_IMPORT_CODE == "PRE_IMPORT_CODE"
IMPORT == "IMPORT"
NON_CODE == "NON_CODE"
CODE == "CODE"
CodeType == {PRE_IMPORT_CODE, IMPORT, NON_CODE, CODE}

CodePartition(code_type, src) == [code_type |-> code_type, src |-> src]

TERMINATES_COMMENT == {"NL", "ENDMARKER"}
TERMINATES_DOCSTRING == {"NEWLINE", "ENDMARKER"}
TERMINATES_IMPORT == {"NEWLINE", "ENDMARKER"}

RECURSIVE SortedSeq(_)
SortedSeq(S) ==
    IF S = {} THEN << >>
    ELSE LET m == CHOOSE x \in S : \A y \in S : x <= y IN << m >> \o SortedSeq(S \ {m})

\* the lengths of the prefixes of s that str.splitlines(True) ends a line at
SplitEnds(s) ==
    {k \in 1..Len(s) :
        \/ s[k] \in {LF, FF}
        \/ s[k] = CR /\ ~(k < Len(s) /\ s[k + 1] = LF)
        \/ k = Len(s)}

\* get_line_offsets_by_line_no; the list index n of Python is n + 1 here
get_line_offsets_by_line_no(s) == << 0, 0 >> \o SortedSeq(SplitEnds(s))

_partitions_to_src(partitions) == Flatten([i \in 1..Len(partitions) |-> partitions[i].src])

\* the step without the noreorder test inside a pending region
PartitionStep_InlineIgnored(s, line_offsets, st, tok) ==
    LET endpos == line_offsets[tok.erow + 1] + tok.ecol
        rest == [st EXCEPT !.chunks = Append(@, CodePartition(CODE, SliceFrom(s, st.startpos))),
                           !.stop = TRUE]
        open(kind, ending) == [st EXCEPT !.pending = kind, !.ending = ending]
        emit(kind) == [st EXCEPT !.chunks = Append(@, CodePartition(kind, Slice(s, st.startpos, endpos))),
                                 !.startpos = endpos,
                                 !.pending = "None", !.ending = {}]
    IN  IF tok.type = "TOKENERROR" THEN [st EXCEPT !.raised = TRUE, !.stop = TRUE]
        ELSE IF st.pending = "None"
        THEN IF ~st.seen_import /\ tok.type = "COMMENT"
             THEN IF tok.text = NOREORDER THEN rest
                  ELSE open(PRE_IMPORT_CODE, TERMINATES_COMMENT)
             ELSE IF ~st.seen_import /\ tok.type = "STRING"
             THEN open(PRE_IMPORT_CODE, TERMINATES_DOCSTRING)
             ELSE IF tok.scol = 0 /\ tok.type = "NAME" /\ tok.text \in {KW_FROM, KW_IMPORT}
             THEN [open(IMPORT, TERMINATES_IMPORT) EXCEPT !.seen_import = TRUE]
             ELSE IF tok.type = "NL"
             THEN emit(NON_CODE)
             ELSE IF tok.type = "COMMENT"
             THEN IF tok.text = NOREORDER THEN rest
                  ELSE open(CODE, TERMINATES_COMMENT)
             ELSE IF tok.type = "ENDMARKER"
             THEN st
             ELSE rest
        ELSE IF tok.type \in st.ending
        THEN emit(st.pending)
        ELSE st

\* the step that opens an import region without setting seen_import
PartitionStep_ImportNotSeen(s, line_offsets, st, tok) ==
    LET endpos == line_offsets[tok.erow + 1] + tok.ecol
        rest == [st EXCEPT !.chunks = Append(@, CodePartition(CODE, SliceFrom(s, st.startpos))),
                           !.stop = TRUE]
        open(kind, ending) == [st EXCEPT !.pending = kind, !.ending = ending]
        emit(kind) == [st EXCEPT !.chunks = Append(@, CodePartition(kind, Slice(s, st.startpos, endpos))),
                                 !.startpos = endpos,
                                 !.pending = "None", !.ending = {}]
    IN  IF tok.type = "TOKENERROR" THEN [st EXCEPT !.raised = TRUE, !.stop = TRUE]
        ELSE IF st.pending = "None"
        THEN IF ~st.seen_import /\ tok.type = "COMMENT"
             THEN IF tok.text = NOREORDER THEN rest
                  ELSE open(PRE_IMPORT_CODE, TERMINATES_COMMENT)
             ELSE IF ~st.seen_import /\ tok.type = "STRING"
             THEN open(PRE_IMPORT_CODE, TERMINATES_DOCSTRING)
             ELSE IF tok.scol = 0 /\ tok.type = "NAME" /\ tok.text \in {KW_FROM, KW_IMPORT}
             THEN open(IMPORT, TERMINATES_IMPORT)
             ELSE IF tok.type = "NL"
             THEN emit(NON_CODE)
             ELSE IF tok.type = "COMMENT"
             THEN IF tok.text = NOREORDER THEN rest
                  ELSE open(CODE, TERMINATES_COMMENT)
             ELSE IF tok.type = "ENDMARKER"
             THEN st
             ELSE rest
        ELSE IF tok.type \in st.ending
        THEN emit(st.pending)
        ELSE IF tok.type = "COMMENT" /\ tok.text = NOREORDER
        THEN rest
        ELSE st

\* the step that emits a region and leaves it pending
PartitionStep_PendingKept(s, line_offsets, st, tok) ==
    LET endpos == line_offsets[tok.erow + 1] + tok.ecol
        rest == [st EXCEPT !.chunks = Append(@, CodePartition(CODE, SliceFrom(s, st.startpos))),
                           !.stop = TRUE]
        open(kind, ending) == [st EXCEPT !.pending = kind, !.ending = ending]
        emit(kind) == [st EXCEPT !.chunks = Append(@, CodePartition(kind, Slice(s, st.startpos, endpos))),
                                 !.startpos = endpos]
    IN  IF tok.type = "TOKENERROR" THEN [st EXCEPT !.raised = TRUE, !.stop = TRUE]
        ELSE IF st.pending = "None"
        THEN IF ~st.seen_import /\ tok.type = "COMMENT"
             THEN IF tok.text = NOREORDER THEN rest
                  ELSE open(PRE_IMPORT_CODE, TERMINATES_COMMENT)
             ELSE IF ~st.seen_import /\ tok.type = "STRING"
             THEN open(PRE_IMPORT_CODE, TERMINATES_DOCSTRING)
             ELSE IF tok.scol = 0 /\ tok.type = "NAME" /\ tok.text \in {KW_FROM, KW_IMPORT}
             THEN [open(IMPORT, TERMINATES_IMPORT) EXCEPT !.seen_import = TRUE]
             ELSE IF tok.type = "NL"
             THEN emit(NON_CODE)
             ELSE IF tok.type = "COMMENT"
             THEN IF tok.text = NOREORDER THEN rest
                  ELSE open(CODE, TERMINATES_COMMENT)
             ELSE IF tok.type = "ENDMARKER"
             THEN st
             ELSE rest
        ELSE IF tok.type \in st.ending
        THEN emit(st.pending)
        ELSE IF tok.type = "COMMENT" /\ tok.text = NOREORDER
        THEN rest
        ELSE st

\* the step that takes a comment after an import for the start of the code
PartitionStep_CommentEnds(s, line_offsets, st, tok) ==
    LET endpos == line_offsets[tok.erow + 1] + tok.ecol
        rest == [st EXCEPT !.chunks = Append(@, CodePartition(CODE, SliceFrom(s, st.startpos))),
                           !.stop = TRUE]
        open(kind, ending) == [st EXCEPT !.pending = kind, !.ending = ending]
        emit(kind) == [st EXCEPT !.chunks = Append(@, CodePartition(kind, Slice(s, st.startpos, endpos))),
                                 !.startpos = endpos,
                                 !.pending = "None", !.ending = {}]
    IN  IF tok.type = "TOKENERROR" THEN [st EXCEPT !.raised = TRUE, !.stop = TRUE]
        ELSE IF st.pending = "None"
        THEN IF ~st.seen_import /\ tok.type = "COMMENT"
             THEN IF tok.text = NOREORDER THEN rest
                  ELSE open(PRE_IMPORT_CODE, TERMINATES_COMMENT)
             ELSE IF ~st.seen_import /\ tok.type = "STRING"
             THEN open(PRE_IMPORT_CODE, TERMINATES_DOCSTRING)
             ELSE IF tok.scol = 0 /\ tok.type = "NAME" /\ tok.text \in {KW_FROM, KW_IMPORT}
             THEN [open(IMPORT, TERMINATES_IMPORT) EXCEPT !.seen_import = TRUE]
             ELSE IF tok.type = "NL"
             THEN emit(NON_CODE)
             ELSE IF tok.type = "ENDMARKER"
             THEN st
             ELSE rest
        ELSE IF tok.type \in st.ending
        THEN emit(st.pending)
        ELSE IF tok.type = "COMMENT" /\ tok.text = NOREORDER
        THEN rest
        ELSE st

\* the step that takes only the first string for a docstring
PartitionStep_FirstStringOnly(s, line_offsets, st, tok) ==
    LET endpos == line_offsets[tok.erow + 1] + tok.ecol
        rest == [st EXCEPT !.chunks = Append(@, CodePartition(CODE, SliceFrom(s, st.startpos))),
                           !.stop = TRUE]
        open(kind, ending) == [st EXCEPT !.pending = kind, !.ending = ending]
        emit(kind) == [st EXCEPT !.chunks = Append(@, CodePartition(kind, Slice(s, st.startpos, endpos))),
                                 !.startpos = endpos,
                                 !.pending = "None", !.ending = {}]
        seen_string == \E i \in 1..Len(st.chunks) :
                           st.chunks[i].src # << >> /\ st.chunks[i].src[1] = QUOTE
    IN  IF tok.type = "TOKENERROR" THEN [st EXCEPT !.raised = TRUE, !.stop = TRUE]
        ELSE IF st.pending = "None"
        THEN IF ~st.seen_import /\ tok.type = "COMMENT"
             THEN IF tok.text = NOREORDER THEN rest
                  ELSE open(PRE_IMPORT_CODE, TERMINATES_COMMENT)
             ELSE IF ~st.seen_import /\ ~seen_string /\ tok.type = "STRING"
             THEN open(PRE_IMPORT_CODE, TERMINATES_DOCSTRING)
             ELSE IF tok.scol = 0 /\ tok.type = "NAME" /\ tok.text \in {KW_FROM, KW_IMPORT}
             THEN [open(IMPORT, TERMINATES_IMPORT) EXCEPT !.seen_import = TRUE]
             ELSE IF tok.type = "NL"
             THEN emit(NON_CODE)
             ELSE IF tok.type = "COMMENT"
             THEN IF tok.text = NOREORDER THEN rest
                  ELSE open(CODE, TERMINATES_COMMENT)
             ELSE IF tok.type = "ENDMARKER"
             THEN st
             ELSE rest
        ELSE IF tok.type \in st.ending
        THEN emit(st.pending)
        ELSE IF tok.type = "COMMENT" /\ tok.text = NOREORDER
        THEN rest
        ELSE st

\* the step that takes other code for one more region and goes on looking for imports
PartitionStep_CodeGoesOn(s, line_offsets, st, tok) ==
    LET endpos == line_offsets[tok.erow + 1] + tok.ecol
        rest == [st EXCEPT !.chunks = Append(@, CodePartition(CODE, SliceFrom(s, st.startpos))),
                           !.stop = TRUE]
        open(kind, ending) == [st EXCEPT !.pending = kind, !.ending = ending]
        emit(kind) == [st EXCEPT !.chunks = Append(@, CodePartition(kind, Slice(s, st.startpos, endpos))),
                                 !.startpos = endpos,
                                 !.pending = "None", !.ending = {}]
    IN  IF tok.type = "TOKENERROR" THEN [st EXCEPT !.raised = TRUE, !.stop = TRUE]
        ELSE IF st.pending = "None"
        THEN IF ~st.seen_import /\ tok.type = "COMMENT"
             THEN IF tok.text = NOREORDER THEN rest
                  ELSE open(PRE_IMPORT_CODE, TERMINATES_COMMENT)
             ELSE IF ~st.seen_import /\ tok.type = "STRING"
             THEN open(PRE_IMPORT_CODE, TERMINATES_DOCSTRING)
             ELSE IF tok.scol = 0 /\ tok.type = "NAME" /\ tok.text \in {KW_FROM, KW_IMPORT}
             THEN [open(IMPORT, TERMINATES_IMPORT) EXCEPT !.seen_import = TRUE]
             ELSE IF tok.type = "NL"
             THEN emit(NON_CODE)
             ELSE IF tok.type = "COMMENT"
             THEN IF tok.text = NOREORDER THEN rest
                  ELSE open(CODE, TERMINATES_COMMENT)
             ELSE IF tok.type = "ENDMARKER"
             THEN st
             ELSE open(CODE, TERMINATES_IMPORT)
        ELSE IF tok.type \in st.ending
        THEN emit(st.pending)
        ELSE IF tok.type = "COMMENT" /\ tok.text = NOREORDER
        THEN rest
        ELSE st

\* the body of the loop of partition_source for the token tok; st.stop is the break,
\* st.raised the exception of the token generator
PartitionStep(s, line_offsets, st, tok) ==
    LET endpos == line_offsets[tok.erow + 1] + tok.ecol
        rest == [st EXCEPT !.chunks = Append(@, CodePartition(CODE, SliceFrom(s, st.startpos))),
                           !.stop = TRUE]
        open(kind, ending) == [st EXCEPT !.pending = kind, !.ending = ending]
        emit(kind) == [st EXCEPT !.chunks = Append(@, CodePartition(kind, Slice(s, st.startpos, endpos))),
                                 !.startpos = endpos,
                                 !.pending = "None", !.ending = {}]
    IN  IF tok.type = "TOKENERROR" THEN [st EXCEPT !.raised = TRUE, !.stop = TRUE]
        ELSE IF st.pending = "None"
        THEN IF ~st.seen_import /\ tok.type = "COMMENT"
             THEN IF tok.text = NOREORDER THEN rest
                  ELSE open(PRE_IMPORT_CODE, TERMINATES_COMMENT)
             ELSE IF ~st.seen_import /\ tok.type = "STRING"
             THEN open(PRE_IMPORT_CODE, TERMINATES_DOCSTRING)
             ELSE IF tok.scol = 0 /\ tok.type = "NAME" /\ tok.text \in {KW_FROM, KW_IMPORT}
             THEN [open(IMPORT, TERMINATES_IMPORT) EXCEPT !.seen_import = TRUE]
             ELSE IF tok.type = "NL"
             THEN emit(NON_CODE)
             ELSE IF tok.type = "COMMENT"
             THEN IF tok.text = NOREORDER THEN rest
                  ELSE open(CODE, TERMINATES_COMMENT)
             ELSE IF tok.type = "ENDMARKER"
             THEN st
             ELSE rest
        ELSE IF tok.type \in st.ending
        THEN emit(st.pending)
        ELSE IF tok.type = "COMMENT" /\ tok.text = NOREORDER
        THEN rest
        ELSE st

RECURSIVE PartitionLoop(_, _, _, _, _)
PartitionLoop(s, line_offsets, toks, n, st) ==
    IF n > Len(toks) \/ st.stop THEN st
    ELSE PartitionLoop(s, line_offsets, toks, n + 1, PartitionStep(s, line_offsets, st, toks[n]))

\* chunks = [], startpos = 0, pending_chunk_type = None, seen_import = False
NoChunks ==
    [chunks |-> << >>, startpos |-> 0, pending |-> "None", ending |-> {},
     seen_import |-> FALSE, stop |-> FALSE, raised |-> FALSE]

\* the empty regions are dropped and the assertion is made
Kept(chunks) == SelectSeq(chunks, LAMBDA c : c.src # << >>)

\* what partition_source ends with after its loop ended in st: .raised when the
\* tokenizer raised, .asserted when the closing assertion fails, else .chunks is the
\* value returned
Partitioned(s, st) ==
    [raised |-> st.raised,
     asserted |-> ~st.raised /\ _partitions_to_src(Kept(st.chunks)) # s,
     chunks |-> Kept(st.chunks),
     pending |-> st.pending,
     startpos |-> st.startpos,
     stop |-> st.stop]

partition_source(s) ==
    Partitioned(s, PartitionLoop(s, get_line_offsets_by_line_no(s), generate_tokens(s), 1, NoChunks))

(***************************************************************************)
(* The import descriptors of classify_imports: import_obj_from_str, the    *)
(* key, equality, split, str and sort.  A module path, a symbol and an     *)
(* alias are texts (sequences of atoms); << >> is the absent alias.        *)
(***************************************************************************)
Names == Idents \cup {NOREORDER}

\* the rows of a text, each with its line feed
RECURSIVE LinesOf(_)
LinesOf(s) ==
    IF s = << >> THEN << >>
    ELSE LET e == Min(LineEnd(s, 1), Len(s))
         IN  << SubSeq(s, 1, e) >> \o LinesOf(SubSeq(s, e + 1, Len(s)))

\* the part of a row before its comment and its line end
CodeOf(line) ==
    LET stops == {k \in 1..Len(line) : line[k] \in {HASH, LF, CR}}
    IN  SubSeq(line, 1, IF stops = {} THEN Len(line) ELSE (CHOOSE k \in stops : \A j \in stops : k <= j) - 1)

IsBlankLine(line) == \A k \in 1..Len(CodeOf(line)) : CodeOf(line)[k] \in Blanks

\* the row starts in a column other than 0: a blank leads it after the last leading form feed
IsIndented(line) ==
    LET lead == Cardinality({j \in 1..Len(line) : \A k \in 1..j : line[k] \in Blanks})
    IN  \E j \in 1..lead : line[j] = SP /\ \A k \in (j + 1)..lead : line[k] # FF

\* the words of a row: blanks dropped
StatementWords(line) == SelectSeq(CodeOf(line), LAMBDA ch : ch \notin Blanks)

\* the index where the dotted name that starts at i ends
RECURSIVE DottedEnd(_, _)
DottedEnd(w, i) ==
    IF i + 2 <= Len(w) /\ w[i + 1] = DOT /\ w[i + 2] \in Names THEN DottedEnd(w, i + 2) ELSE i

SyntaxError == [type |-> "SyntaxError", module |-> << >>, names |-> << >>]

\* name [as alias] {, name [as alias]} from index i on; << >> when malformed
RECURSIVE ParseAliases(_, _, _)
ParseAliases(w, i, dotted) ==
    IF i > Len(w) \/ w[i] \notin Names THEN << >>
    ELSE LET e == IF dotted THEN DottedEnd(w, i) ELSE i
             hasAs == e + 2 <= Len(w) /\ w[e + 1] = KW_AS /\ w[e + 2] \in Names
             alias == [name |-> SubSeq(w, i, e), asname |-> IF hasAs THEN << w[e + 2] >> ELSE << >>]
             n == IF hasAs THEN e + 3 ELSE e + 1
         IN  IF n > Len(w) THEN << alias >>
             ELSE IF w[n] = COMMA
             THEN LET more == ParseAliases(w, n + 1, dotted)
                  IN  IF more = << >> THEN << >> ELSE << alias >> \o more
             ELSE << >>

\* the object of one statement row
ParseStatement(w) ==
    IF w = << >> THEN SyntaxError
    ELSE IF w[1] = KW_IMPORT
    THEN LET names == ParseAliases(w, 2, TRUE)
         IN  IF names = << >> THEN SyntaxError
             ELSE [type |-> "Import", module |-> << >>, names |-> names]
    ELSE IF w[1] = KW_FROM /\ \E k \in 3..Len(w) : w[k] = KW_IMPORT
    THEN LET k == CHOOSE j \in 3..Len(w) : w[j] = KW_IMPORT /\ \A l \in 3..(j - 1) : w[l] # KW_IMPORT
             mod == SubSeq(w, 2, k - 1)
             dots == {j \in 1..Len(mod) : \A l \in 1..j : mod[l] = DOT}
             level == Cardinality(dots)
             wellFormed == \/ level = Len(mod)
                           \/ mod[level + 1] \in Names /\ DottedEnd(mod, level + 1) = Len(mod)
             names == ParseAliases(w, k + 1, FALSE)
         IN  IF ~wellFormed \/ names = << >> THEN SyntaxError
             ELSE [type |-> "ImportFrom", module |-> mod, names |-> names]
    ELSE SyntaxError

\* a row that ast.parse accepts after the first statement: an import or a dotted name
IsStatement(w) ==
    \/ ParseStatement(w) # SyntaxError
    \/ w[1] \in Names /\ DottedEnd(w, 1) = Len(w)

\* import_obj_from_str: the Import or ImportFrom object of the first statement of the
\* text, or SyntaxError for the exception raised when the text does not parse or its
\* first statement is no import
import_obj_from_str(src) ==
    LET statements == SelectSeq(LinesOf(src), LAMBDA line : ~IsBlankLine(line))
    IN  IF \/ statements = << >>
           \/ \E i \in 1..Len(statements) : IsIndented(statements[i])
           \/ \E i \in 2..Len(statements) : ~IsStatement(StatementWords(statements[i]))
        THEN SyntaxError
        ELSE ParseStatement(StatementWords(statements[1]))

is_multiple(obj) == Len(obj.names) > 1

\* Import.key is (module, asname), ImportFrom.key is (module, symbol, asname): of the first name
ImportKey(module, asname) == << module, asname >>
ImportFromKey(module, symbol, asname) == << module, symbol, asname >>
key(obj) ==
    IF obj.type = "Import" THEN ImportKey(obj.names[1].name, obj.names[1].asname)
    ELSE ImportFromKey(obj.module, obj.names[1].name, obj.names[1].asname)

\* __eq__ and __hash__: two objects are the same descriptor iff type and key agree
descriptor(obj) == [type |-> obj.type, key |-> key(obj)]

\* split: one object per imported name
split(obj) == [i \in 1..Len(obj.names) |-> [obj EXCEPT !.names = << obj.names[i] >>]]

\* __str__ of an object with one name
str(obj) ==
    LET alias == obj.names[1]
        as == IF alias.asname = << >> THEN << >> ELSE << KW_AS >> \o alias.asname
    IN  IF obj.type = "Import"
        THEN << KW_IMPORT >> \o alias.name \o as \o << LF >>
        ELSE << KW_FROM >> \o obj.module \o << KW_IMPORT >> \o alias.name \o as \o << LF >>

\* ast.ImportFrom(module, names, level=0) and ast.Import(names) wrapped as objects
MakeImportFrom(module, names) == [type |-> "ImportFrom", module |-> module, names |-> names]
MakeImport(names) == [type |-> "Import", module |-> << >>, names |-> names]

\* the order of the characters: the dot comes before every letter
Rank(atom) ==
    CASE atom = DOT -> 0
      [] atom = "a" -> 1
      [] atom = "b" -> 2
      [] atom = NOREORDER -> 3
      [] atom = "p" -> 4
      [] atom = "t" -> 5
      [] atom = "x" -> 6
      [] atom = "y" -> 7
      [] OTHER -> 8

\* s < t for two texts, as Python compares strings
RECURSIVE StrLess(_, _)
StrLess(s, t) ==
    IF t = << >> THEN FALSE
    ELSE IF s = << >> THEN TRUE
    ELSE IF Rank(Head(s)) # Rank(Head(t)) THEN Rank(Head(s)) < Rank(Head(t))
    ELSE StrLess(Tail(s), Tail(t))

\* a < b for two tuples of texts
RECURSIVE TupleLess(_, _)
TupleLess(a, b) ==
    IF b = << >> THEN FALSE
    ELSE IF a = << >> THEN TRUE
    ELSE IF Head(a) # Head(b) THEN StrLess(Head(a), Head(b))
    ELSE TupleLess(Tail(a), Tail(b))

\* sort_key: ('0', name, asname) for import a, ('1', module, symbol, asname) for from a import b
sort_key(d) == << IF d.type = "Import" THEN << "a" >> ELSE << "b" >> >> \o d.key

\* __lt__ of the descriptors
DescriptorLess(d, e) == TupleLess(sort_key(d), sort_key(e))

\* the classes of classify_base, in the order sort emits them
BUILTIN == 1
THIRD_PARTY == 2
APPLICATION == 3

\* the settings of the run: which top-level names are standard library, which first party
StdlibModules == {"a", "b"}
ApplicationModules == {"p"}

\* module_base, the first component of the module path, classified; a relative import
\* has the empty base and is first party
classify_base(d) ==
    LET base == Head(d.key)[1]
    IN  IF base = DOT \/ base \in ApplicationModules THEN APPLICATION
        ELSE IF base \in StdlibModules THEN BUILTIN
        ELSE THIRD_PARTY

RECURSIVE SortDescriptors(_)
SortDescriptors(S) ==
    IF S = {} THEN << >>
    ELSE LET m == CHOOSE d \in S : \A e \in S \ {d} : DescriptorLess(d, e)
         IN  << m >> \o SortDescriptors(S \ {m})

\* sort: the non-empty classes in order, each sorted
sort(descriptors) ==
    LET block(tp) == SortDescriptors({d \in descriptors : classify_base(d) = tp})
    IN  SelectSeq(<< block(BUILTIN), block(THIRD_PARTY), block(APPLICATION) >>, LAMBDA b : b # << >>)

(***************************************************************************)
(* The stages of the pipeline                                              *)
(***************************************************************************)
Whitespace == {SP, FF, LF, CR}

\* str.strip()
RECURSIVE LStrip(_)
LStrip(s) == IF s # << >> /\ Head(s) \in Whitespace THEN LStrip(Tail(s)) ELSE s
RECURSIVE RStrip(_)
RStrip(s) == IF s # << >> /\ s[Len(s)] \in Whitespace THEN RStrip(SubSeq(s, 1, Len(s) - 1)) ELSE s
Strip(s) == LStrip(RStrip(s))

EndsWithNewline(s) == s # << >> /\ s[Len(s)] = LF

Last(seq) == seq[Len(seq)]
Front(seq) == SubSeq(seq, 1, Len(seq) - 1)

\* an IMPORT region that import_obj_from_str raises on
Unparsable(partitions) ==
    \E i \in 1..Len(partitions) :
        partitions[i].code_type = IMPORT /\ import_obj_from_str(partitions[i].src) = SyntaxError

NON_COMBINABLE == {IMPORT, PRE_IMPORT_CODE}

\* the while loop of combine_trailing_code_chunks: pops the chunks that can be combined
RECURSIVE PopCombinable(_, _)
PopCombinable(chunks, src) ==
    IF chunks # << >> /\ Last(chunks).code_type \notin NON_COMBINABLE
    THEN PopCombinable(Front(chunks), Last(chunks).src \o src)
    ELSE Append(chunks, CodePartition(CODE, src))

\* only the last region is taken: the loop over the regions before it is left out
combine_trailing_code_chunks_LastOnly(partitions) ==
    IF partitions # << >> /\ Last(partitions).code_type \notin NON_COMBINABLE
    THEN Append(Front(partitions), CodePartition(CODE, Last(partitions).src))
    ELSE partitions

combine_trailing_code_chunks(partitions) ==
    IF partitions # << >> /\ Last(partitions).code_type \notin NON_COMBINABLE
    THEN PopCombinable(Front(partitions), Last(partitions).src)
    ELSE partitions

\* the names of a combined statement yielded last name first
Separated_LastFirst(partition, obj) ==
    IF is_multiple(obj)
    THEN [i \in 1..Len(obj.names) |-> CodePartition(IMPORT, str(split(obj)[Len(obj.names) + 1 - i]))]
    ELSE << partition >>

\* what _inner of separate_comma_imports yields for an import partition of object obj
Separated(partition, obj) ==
    IF is_multiple(obj)
    THEN [i \in 1..Len(obj.names) |-> CodePartition(IMPORT, str(split(obj)[i]))]
    ELSE << partition >>

separate_comma_imports(partitions) ==
    Flatten([i \in 1..Len(partitions) |->
                IF partitions[i].code_type = IMPORT
                THEN Separated(partitions[i], import_obj_from_str(partitions[i].src))
                ELSE << partitions[i] >>])

add_imports(partitions, to_add) ==
    IF Strip(_partitions_to_src(partitions)) = << >> THEN partitions
    ELSE LET terminated ==
                 IF ~EndsWithNewline(Last(partitions).src)
                 THEN [partitions EXCEPT ![Len(partitions)].src = @ \o << LF >>]
                 ELSE partitions
         IN  terminated \o [i \in 1..Len(to_add) |-> CodePartition(IMPORT, Strip(to_add[i]) \o << LF >>)]

\* only the keys of plain imports are looked up
remove_imports_PlainOnly(partitions, to_remove) ==
    SelectSeq(partitions, LAMBDA partition :
        \/ partition.code_type # IMPORT
        \/ import_obj_from_str(partition.src).type # "Import"
        \/ key(import_obj_from_str(partition.src)) \notin to_remove)
remove_imports(partitions, to_remove) ==
    SelectSeq(partitions, LAMBDA partition :
        partition.code_type # IMPORT \/ key(import_obj_from_str(partition.src)) \notin to_remove)

\* s.rpartition('.'): the text before the last dot, whether there is a dot, the text after it
RPartition(s) ==
    LET dots == {k \in 1..Len(s) : s[k] = DOT} IN
    IF dots = {} THEN [before |-> << >>, sep |-> FALSE, after |-> s]
    ELSE LET k == CHOOSE j \in dots : \A l \in dots : l <= j
         IN  [before |-> SubSeq(s, 1, k - 1), sep |-> TRUE, after |-> SubSeq(s, k + 1, Len(s))]

\* the first value assigned to a key stays
Put_KeepsFirst(d, k, v) ==
    IF k \in DOMAIN d THEN d ELSE [x \in (DOMAIN d) \cup {k} |-> IF x = k THEN v ELSE d[x]]

\* d[k] = v of a dict
Put(d, k, v) == [x \in (DOMAIN d) \cup {k} |-> IF x = k THEN v ELSE d[x]]

\* Replacements.make: args is a list of (mod_from, mod_to, attr)
RECURSIVE MakeLoop(_, _, _)
MakeLoop(args, exact, mods) ==
    IF args = << >> THEN [exact |-> exact, mods |-> mods]
    ELSE LET mod_from == Head(args)[1]
             mod_to == Head(args)[2]
             attr == Head(args)[3]
             from == RPartition(mod_from)
             to == RPartition(mod_to)
         IN  IF attr # << >>
             THEN MakeLoop(Tail(args), Put(exact, << mod_from, attr >>, mod_to), mods)
             ELSE MakeLoop(Tail(args),
                           IF from.after # << >> /\ to.before # << >> /\ from.after = to.after
                           THEN Put(exact, << from.before, from.after >>, to.before)
                           ELSE exact,
                           Put(mods, mod_from, mod_to))

\* every rule taken as a rule of its module, the attribute ignored
Replacements_make_NoAttr(args) ==
    MakeLoop([k \in 1..Len(args) |-> << args[k][1], args[k][2], << >> >>], << >>, << >>)

Replacements_make(args) == MakeLoop(args, << >>, << >>)

\* _module_to_base_modules: the texts before each dot of s, shortest first
\* only the direct parent of the module
_module_to_base_modules_ParentOnly(s) ==
    LET dots == SortedSeq({k \in 1..Len(s) : s[k] = DOT})
    IN  IF dots = << >> THEN << >> ELSE << SubSeq(s, 1, dots[Len(dots)] - 1) >>

_module_to_base_modules(s) ==
    LET dots == SortedSeq({k \in 1..Len(s) : s[k] = DOT})
    IN  [i \in 1..Len(dots) |-> SubSeq(s, 1, dots[i] - 1)]

\* a rule from mod.symbol is applied whether or not the import has an alias
ReplaceFrom_AnySymbol(partition, mod, symbol, asname, names, to_replace) ==
    LET mod_symbol == mod \o << DOT >> \o symbol
        bases == SelectSeq(_module_to_base_modules(mod), LAMBDA m : m \in DOMAIN to_replace.mods)
    IN  IF << mod, symbol >> \in DOMAIN to_replace.exact
        THEN [partition EXCEPT !.src = str(MakeImportFrom(to_replace.exact[<< mod, symbol >>], names))]
        ELSE IF mod_symbol \in DOMAIN to_replace.mods
        THEN LET new == RPartition(to_replace.mods[mod_symbol])
                 renamed == << [name |-> new.after, asname |-> asname] >>
             IN  IF new.before # << >>
                 THEN [partition EXCEPT !.src = str(MakeImportFrom(new.before, renamed))]
                 ELSE IF ~new.sep
                 THEN [partition EXCEPT !.src = str(MakeImport(renamed))]
                 ELSE partition
        ELSE IF mod \in DOMAIN to_replace.mods
        THEN [partition EXCEPT !.src = str(MakeImportFrom(to_replace.mods[mod], names))]
        ELSE IF bases # << >>
        THEN LET mod_name == bases[1]
                 new_mod == to_replace.mods[mod_name]
             IN  [partition EXCEPT !.src =
                     str(MakeImportFrom(new_mod \o SubSeq(mod, Len(mod_name) + 1, Len(mod)), names))]
        ELSE partition

\* the from-import branches of _inner; mod, symbol and asname are the key of the
\* import and names its aliases
ReplaceFrom(partition, mod, symbol, asname, names, to_replace) ==
    LET mod_symbol == mod \o << DOT >> \o symbol
        bases == SelectSeq(_module_to_base_modules(mod), LAMBDA m : m \in DOMAIN to_replace.mods)
    IN  IF << mod, symbol >> \in DOMAIN to_replace.exact
        THEN [partition EXCEPT !.src = str(MakeImportFrom(to_replace.exact[<< mod, symbol >>], names))]
        ELSE IF /\ mod_symbol \in DOMAIN to_replace.mods
                /\ (asname # << >> \/ to_replace.mods[mod_symbol] = symbol)
        THEN LET new == RPartition(to_replace.mods[mod_symbol])
                 renamed == << [name |-> new.after, asname |-> asname] >>
             IN  IF new.before # << >>
                 THEN [partition EXCEPT !.src = str(MakeImportFrom(new.before, renamed))]
                 ELSE IF ~new.sep
                 THEN [partition EXCEPT !.src = str(MakeImport(renamed))]
                 ELSE partition
        ELSE IF mod \in DOMAIN to_replace.mods
        THEN [partition EXCEPT !.src = str(MakeImportFrom(to_replace.mods[mod], names))]
        ELSE IF bases # << >>
        THEN LET mod_name == bases[1]
                 new_mod == to_replace.mods[mod_name]
             IN  [partition EXCEPT !.src =
                     str(MakeImportFrom(new_mod \o SubSeq(mod, Len(mod_name) + 1, Len(mod)), names))]
        ELSE partition

\* an import-import whose module is the old path of a rule is rewritten too
ReplaceObj_PlainToo(partition, import_obj, to_replace) ==
    IF import_obj.type = "Import"
    THEN IF key(import_obj)[1] \in DOMAIN to_replace.mods
         THEN [partition EXCEPT !.src =
                 str(MakeImport(<< [name |-> to_replace.mods[key(import_obj)[1]],
                                    asname |-> key(import_obj)[2]] >>))]
         ELSE partition
    ELSE ReplaceFrom(partition, key(import_obj)[1], key(import_obj)[2], key(import_obj)[3],
                     import_obj.names, to_replace)

\* _inner for an import partition whose object is import_obj: an import-import is
\* never rewritten
ReplaceObj(partition, import_obj, to_replace) ==
    IF import_obj.type = "Import" THEN partition
    ELSE ReplaceFrom(partition, key(import_obj)[1], key(import_obj)[2], key(import_obj)[3],
                     import_obj.names, to_replace)

replace_imports(partitions, to_replace) ==
    [i \in 1..Len(partitions) |->
        IF partitions[i].code_type # IMPORT THEN partitions[i]
        ELSE ReplaceObj(partitions[i], import_obj_from_str(partitions[i].src), to_replace)]

Range(seq) == {seq[i] : i \in 1..Len(seq)}

\* the test with "not import_obj.key.asname" left out: an aliased plain import counts too
takes_part_Aliased(import_obj) == import_obj.type = "Import"

\* isinstance(import_obj, Import) and not import_obj.key.asname
takes_part(import_obj) == import_obj.type = "Import" /\ key(import_obj)[2] = << >>

\* one turn of the first loop of remove_duplicated_imports on an import partition of
\* object import_obj
DedupeStep(st, partition, import_obj) ==
    IF descriptor(import_obj) \notin st.seen
    THEN [seen |-> st.seen \cup {descriptor(import_obj)},
          seen_module_names |->
              IF takes_part(import_obj)
              THEN st.seen_module_names \cup Range(_module_to_base_modules(key(import_obj)[1]))
              ELSE st.seen_module_names,
          without_exact_duplicates |-> Append(st.without_exact_duplicates, partition)]
    ELSE st

\* the first loop of remove_duplicated_imports over partitions[1..n]
RECURSIVE DedupeLoop(_, _)
DedupeLoop(partitions, n) ==
    IF n = 0 THEN [seen |-> {}, seen_module_names |-> {}, without_exact_duplicates |-> << >>]
    ELSE IF partitions[n].code_type = IMPORT
    THEN DedupeStep(DedupeLoop(partitions, n - 1), partitions[n], import_obj_from_str(partitions[n].src))
    ELSE [DedupeLoop(partitions, n - 1) EXCEPT !.without_exact_duplicates = Append(@, partitions[n])]

\* the test of the second loop: an un-aliased plain import of a module seen as a base
Redundant(import_obj, seen_module_names) ==
    takes_part(import_obj) /\ key(import_obj)[1] \in seen_module_names

\* the second loop of remove_duplicated_imports, st is what the first loop left
OutPartitions(st) ==
    SelectSeq(st.without_exact_duplicates, LAMBDA partition :
        ~(/\ partition.code_type = IMPORT
          /\ Redundant(import_obj_from_str(partition.src), st.seen_module_names)))

\* remove_duplicated_imports with seen overwritten: of the regions of one descriptor
\* the last one stays
Reverse(seq) == [i \in 1..Len(seq) |-> seq[Len(seq) + 1 - i]]
remove_duplicated_imports_KeepsLast(partitions) ==
    Reverse(OutPartitions(DedupeLoop(Reverse(partitions), Len(partitions))))

remove_duplicated_imports(partitions) == OutPartitions(DedupeLoop(partitions, Len(partitions)))

\* the partitions of one code type, in order
OfType(partitions, code_type) == SelectSeq(partitions, LAMBDA partition : partition.code_type = code_type)

\* an import is given a newline if it doesn't have one
terminated(imports) ==
    [i \in 1..Len(imports) |->
        IF EndsWithNewline(imports[i].src) THEN imports[i]
        ELSE CodePartition(IMPORT, imports[i].src \o << LF >>)]

\* the keys of the dict comprehension, in the order of the imports
import_objs(imports) == [i \in 1..Len(imports) |-> descriptor(import_obj_from_str(imports[i].src))]

\* the dict comprehension: a later partition replaces an earlier one of the same descriptor
import_obj_to_partition(imports, objs) ==
    [d \in Range(objs) |->
        imports[CHOOSE i \in 1..Len(imports) :
                    objs[i] = d /\ \A j \in (i + 1)..Len(imports) : objs[j] # d]]

\* the partitions of the blocks of sort, each block followed by a blank-line region
with_separators(by_obj, sorted_blocks) ==
    Flatten([n \in 1..Len(sorted_blocks) |->
                [i \in 1..Len(sorted_blocks[n]) |-> by_obj[sorted_blocks[n][i]]]
                \o << CodePartition(NON_CODE, << LF >>) >>])

\* new_imports before the closing pop()
appended(imports) ==
    with_separators(import_obj_to_partition(imports, import_objs(imports)),
                    sort(Range(import_objs(imports))))

\* if new_imports: new_imports.pop()
Popped(seq) == IF seq # << >> THEN Front(seq) ELSE << >>

\* new_imports without the closing pop()
new_imports_NoPop(imports) == appended(imports)

\* the blocks of sort with a blank-line region between them
new_imports(imports) == Popped(appended(imports))

\* the CODE regions handed on uncombined
combined_rest_Uncombined(rest) == rest

\* lines 392-395: the text ended by one newline, or no region when it is empty
Rest(restsrc) == IF restsrc # << >> THEN << CodePartition(CODE, restsrc \o << LF >>) >> ELSE << >>

\* the combined text is not right-stripped
combined_rest_Unstripped(rest) == Rest(_partitions_to_src(rest))

\* the CODE regions combined into one, right-stripped and ended by one newline
combined_rest(rest) == Rest(RStrip(_partitions_to_src(rest)))

apply_import_sorting(partitions) ==
    OfType(partitions, PRE_IMPORT_CODE)
    \o new_imports(terminated(OfType(partitions, IMPORT)))
    \o combined_rest(OfType(partitions, CODE))

(***************************************************************************)
(* apply_import_sorting of reorder_python_imports/main.py, which takes     *)
(* separate_relative and separate_from_import                              *)
(***************************************************************************)
\* is_explicit_relative: a from-import whose module starts with a dot
is_explicit_relative(d) == d.type = "ImportFrom" /\ Head(d.key) # << >> /\ Head(d.key)[1] = DOT

None == [type |-> "None", key |-> << >>]

_import_type_switches(separate_from, last_import_obj, import_obj) ==
    separate_from /\ last_import_obj # None /\ last_import_obj.type # import_obj.type

\* the inner loop over the import objects of one block, from the i-th on; acc holds
\* new_imports, relative_imports and last_import_obj
RECURSIVE BlockLoop(_, _, _, _, _, _)
BlockLoop(block, i, by_obj, separate_rel, separate_from, acc) ==
    IF i > Len(block) THEN acc
    ELSE IF separate_rel /\ is_explicit_relative(block[i])
    THEN BlockLoop(block, i + 1, by_obj, separate_rel, separate_from,
                   [acc EXCEPT !.relative_imports = Append(@, by_obj[block[i]])])
    ELSE BlockLoop(block, i + 1, by_obj, separate_rel, separate_from,
                   [new_imports |->
                        (IF _import_type_switches(separate_from, acc.last_import_obj, block[i])
                         THEN Append(acc.new_imports, CodePartition(NON_CODE, << LF >>))
                         ELSE acc.new_imports) \o << by_obj[block[i]] >>,
                    relative_imports |-> acc.relative_imports,
                    last_import_obj |-> block[i]])

\* the end of the body of the outer loop: a blank-line region is appended to
\* new_imports, and one is put before relative_imports if it is not empty
AfterBlock(acc) ==
    [new_imports |-> Append(acc.new_imports, CodePartition(NON_CODE, << LF >>)),
     relative_imports |-> IF acc.relative_imports # << >>
                          THEN << CodePartition(NON_CODE, << LF >>) >> \o acc.relative_imports
                          ELSE acc.relative_imports,
     last_import_obj |-> None]

\* the outer loop over the blocks of sort, from the n-th on
RECURSIVE BlocksLoop(_, _, _, _, _, _)
BlocksLoop(sorted_blocks, n, by_obj, separate_rel, separate_from, acc) ==
    IF n > Len(sorted_blocks) THEN acc
    ELSE BlocksLoop(sorted_blocks, n + 1, by_obj, separate_rel, separate_from,
                    AfterBlock(BlockLoop(sorted_blocks[n], 1, by_obj, separate_rel, separate_from, acc)))

\* new_imports with its last region popped, then relative_imports
SortedImports(acc) == Popped(acc.new_imports) \o acc.relative_imports

separated_imports(imports, separate_rel, separate_from) ==
    SortedImports(BlocksLoop(sort(Range(import_objs(imports))), 1,
                             import_obj_to_partition(imports, import_objs(imports)),
                             separate_rel, separate_from,
                             [new_imports |-> << >>, relative_imports |-> << >>,
                              last_import_obj |-> None]))

main_apply_import_sorting(partitions, separate_rel, separate_from) ==
    OfType(partitions, PRE_IMPORT_CODE)
    \o separated_imports(terminated(OfType(partitions, IMPORT)), separate_rel, separate_from)
    \o combined_rest(OfType(partitions, CODE))

\* how many lines of s.splitlines(True) end with each ending, and where each first occurs
EndsCRLF(s) == {k \in 2..Len(s) : s[k - 1] = CR /\ s[k] = LF}
EndsCR(s) == {k \in 1..Len(s) : s[k] = CR /\ ~(k < Len(s) /\ s[k + 1] = LF)}
EndsLF(s) == {k \in 1..Len(s) : s[k] = LF /\ ~(k > 1 /\ s[k - 1] = CR)}
FirstOf(S) == CHOOSE k \in S : \A j \in S : k <= j

\* the ending of the first line instead of the most common one
_most_common_line_ending_First(s) ==
    LET ends == EndsCRLF(s) \cup EndsCR(s) \cup EndsLF(s)
    IN  IF ends = {} THEN << LF >>
        ELSE IF FirstOf(ends) \in EndsCRLF(s) THEN << CR, LF >>
        ELSE IF FirstOf(ends) \in EndsCR(s) THEN << CR >>
        ELSE << LF >>

\* _most_common_line_ending: the counter starts with '\n', so '\n' wins a tie, and of
\* '\r\n' and '\r' the one counted first wins a tie
_most_common_line_ending(s) ==
    LET crlf == Cardinality(EndsCRLF(s))
        cr == Cardinality(EndsCR(s))
        lf == Cardinality(EndsLF(s))
    IN  IF lf >= crlf /\ lf >= cr THEN << LF >>
        ELSE IF crlf > cr THEN << CR, LF >>
        ELSE IF cr > crlf THEN << CR >>
        ELSE IF FirstOf(EndsCRLF(s)) < FirstOf(EndsCR(s)) THEN << CR, LF >>
        ELSE << CR >>

\* contents.replace('\r\n', '\n').replace('\r', '\n')
RECURSIVE ReplaceCRLF(_)
ReplaceCRLF(s) ==
    IF s = << >> THEN << >>
    ELSE IF Len(s) >= 2 /\ s[1] = CR /\ s[2] = LF THEN << LF >> \o ReplaceCRLF(Tail(Tail(s)))
    ELSE << Head(s) >> \o ReplaceCRLF(Tail(s))
ReplaceAtom(s, old, new) == Flatten([i \in 1..Len(s) |-> IF s[i] = old THEN new ELSE << s[i] >>])
NormalizeNewlines(s) == ReplaceAtom(ReplaceCRLF(s), CR, << LF >>)

\* an exception leaves fix_file_contents; asserted: it is the AssertionError of partition_source
Raised(nl, asserted) ==
    [raised |-> TRUE, asserted |-> asserted, nl |-> nl, deduped |-> << >>, partitioned |-> << >>,
     out |-> << >>]

\* what fix_file_contents returns for the regions that apply_import_sorting gave;
\* deduped is what it was called on
FixSorted(nl, deduped, sorted) ==
    [raised |-> FALSE, asserted |-> FALSE, nl |-> nl, deduped |-> deduped, partitioned |-> sorted,
     out |-> ReplaceAtom(_partitions_to_src(sorted), LF, nl)]

\* fix_file_contents from apply_import_sorting on
FixDeduped(nl, deduped) == FixSorted(nl, deduped, apply_import_sorting(deduped))

\* remove_duplicated_imports is left out
FixAdded_Undeduped(nl, added, to_remove, to_replace) ==
    IF Unparsable(added) THEN Raised(nl, FALSE)
    ELSE FixDeduped(nl, replace_imports(
                            remove_imports(separate_comma_imports(added), to_remove),
                            to_replace))

\* fix_file_contents from separate_comma_imports on: every later stage calls
\* import_obj_from_str on every import, which raises on one it cannot parse
FixAdded(nl, added, to_remove, to_replace) ==
    IF Unparsable(added) THEN Raised(nl, FALSE)
    ELSE FixDeduped(nl, remove_duplicated_imports(
                            replace_imports(
                                remove_imports(separate_comma_imports(added), to_remove),
                                to_replace)))

\* the imports are added after the duplicates are removed, just before the sorting
FixPartitioned_AddedLate(nl, p, to_add, to_remove, to_replace) ==
    IF p.raised \/ p.asserted THEN Raised(nl, p.asserted)
    ELSE IF Unparsable(add_imports(combine_trailing_code_chunks(p.chunks), to_add))
    THEN Raised(nl, FALSE)
    ELSE FixDeduped(nl, add_imports(
                            remove_duplicated_imports(
                                replace_imports(
                                    remove_imports(
                                        separate_comma_imports(
                                            combine_trailing_code_chunks(p.chunks)),
                                        to_remove),
                                    to_replace)),
                            to_add))

\* fix_file_contents after partition_source, p is what that call gave
FixPartitioned(nl, p, to_add, to_remove, to_replace) ==
    IF p.raised \/ p.asserted THEN Raised(nl, p.asserted)
    ELSE FixAdded(nl, add_imports(combine_trailing_code_chunks(p.chunks), to_add), to_remove, to_replace)

\* fix_file_contents: .raised when an exception leaves it, else .out is the text
\* returned and .partitioned the regions it is made of
fix_file_contents(contents, to_add, to_remove, to_replace) ==
    FixPartitioned(_most_common_line_ending(contents), partition_source(NormalizeNewlines(contents)),
                   to_add, to_remove, to_replace)

(***************************************************************************)
(* _fix_file and main                                                      *)
(***************************************************************************)
\* bytes: the ASCII characters are their own bytes; U_00E9 is a character of two bytes,
\* XC3 XA9, and X98 is a byte that no UTF-8 text holds
XC3 == "xc3"
XA9 == "xa9"
X98 == "x98"
U_00E9 == "u00e9"

\* the character ch before what the rest of the bytes decodes to
Decoded(ch, rest) == [error |-> rest.error, text |-> IF rest.error THEN << >> ELSE << ch >> \o rest.text]

\* bytes.decode(): .error for UnicodeDecodeError
RECURSIVE decode(_)
decode(b) ==
    IF b = << >> THEN [error |-> FALSE, text |-> << >>]
    ELSE IF Head(b) = XC3
    THEN IF Len(b) >= 2 /\ b[2] = XA9 THEN Decoded(U_00E9, decode(SubSeq(b, 3, Len(b))))
         ELSE [error |-> TRUE, text |-> << >>]
    ELSE IF Head(b) \in {XA9, X98} THEN [error |-> TRUE, text |-> << >>]
    ELSE Decoded(Head(b), decode(Tail(b)))

\* str.encode()
encode(t) == Flatten([i \in 1..Len(t) |-> IF t[i] = U_00E9 THEN << XC3, XA9 >> ELSE << t[i] >>])

\* the lines printed on stderr
NonUtf8(filename) == [message |-> "is non-utf-8 (not supported)", filename |-> filename]
Reordering(filename) == [message |-> "Reordering imports in", filename |-> filename]
PythonPathSet == [message |-> "$PYTHONPATH set, import order may be unexpected", filename |-> ""]

\* what a call of _fix_file does: .raised when an exception leaves it, else the value
\* returned, what it prints on stdout and on stderr, and what it writes to the file
Outcome(raised, ret, printed, errors, written) ==
    [raised |-> raised, ret |-> ret, printed |-> printed, errors |-> errors, written |-> written]

\* _fix_file after the decoding; fixed is what fix_file_contents gave for contents
FixFileDecoded(filename, exit_zero, contents, fixed) ==
    IF fixed.raised THEN Outcome(TRUE, 0, << >>, << >>, << >>)
    ELSE Outcome(FALSE,
                 IF exit_zero THEN 0 ELSE IF contents # fixed.out THEN 1 ELSE 0,
                 IF filename = "-" THEN << fixed.out >> ELSE << >>,
                 IF filename # "-" /\ contents # fixed.out THEN << Reordering(filename) >> ELSE << >>,
                 IF filename # "-" /\ contents # fixed.out THEN << encode(fixed.out) >> ELSE << >>)

\* bytes that do not decode end the run
FixFileRead_Fatal(filename, exit_zero, decoded, add, remove, to_replace) ==
    IF decoded.error THEN Outcome(TRUE, 0, << >>, << NonUtf8(filename) >>, << >>)
    ELSE FixFileDecoded(filename, exit_zero, decoded.text,
                        fix_file_contents(decoded.text, add, remove, to_replace))

\* _fix_file after the reading; decoded is what contents_bytes.decode() gave
FixFileRead(filename, exit_zero, decoded, add, remove, to_replace) ==
    IF decoded.error THEN Outcome(FALSE, 1, << >>, << NonUtf8(filename) >>, << >>)
    ELSE FixFileDecoded(filename, exit_zero, decoded.text,
                        fix_file_contents(decoded.text, add, remove, to_replace))

_fix_file(filename, contents_bytes, exit_zero, add, remove, to_replace) ==
    FixFileRead(filename, exit_zero, decode(contents_bytes), add, remove, to_replace)

\* retv = r: the value of the last file
BitOr_Last(a, b) == b

\* a | b of two values that are 0 or 1
BitOr(a, b) == IF a = 1 \/ b = 1 THEN 1 ELSE 0

(***************************************************************************)
(* The state: one call of partition_source (src, partitioned), one file    *)
(* run through fix_file_contents and once more through it (contents, the   *)
(* directives, first, second), and one call of a single stage on a list    *)
(* of regions (partitions, stage, returned).  pc tells what has run.       *)
(***************************************************************************)
VARIABLES pc, src, partitioned,
          contents, to_add, to_remove, replace_args, first, second,
          partitions, stage, returned,
          separate_relative, separate_from_import,
          filenames, exit_zero_even_if_changed, disk, stdin, stdout, stderr, index, retv,
          calls,
          scan

\* the keyword arguments of the apply_import_sorting of reorder_python_imports/main.py
sortVars == << separate_relative, separate_from_import >>
\* one run of main: its arguments, the files and the three streams, the position of
\* its loop over the files and its return value; calls is the history of the calls of
\* _fix_file: the file name, the bytes read, the files before and after the call
mainVars == << filenames, exit_zero_even_if_changed, disk, stdin, stdout, stderr, index, retv,
               calls >>
\* the loop of partition_source: the token it is at and its local variables
scanVars == << scan >>

vars == << pc, src, partitioned, contents, to_add, to_remove, replace_args, first, second,
           partitions, stage, returned,
           separate_relative, separate_from_import,
           filenames, exit_zero_even_if_changed, disk, stdin, stdout, stderr, index, retv,
           calls, scan >>

\* the parts of the state a specification leaves aside
NoSortKwargs == separate_relative = FALSE /\ separate_from_import = FALSE
NoMain ==
    /\ filenames = << >> /\ exit_zero_even_if_changed = FALSE
    /\ disk = << >> /\ stdin = << >> /\ stdout = << >> /\ stderr = << >>
    /\ index = 0 /\ retv = 0 /\ calls = << >>
NoScan == scan = << >>

\* the bounds of the model
MaxTextLen == 4
MaxLines == 3
MaxRegions == 3
MaxImports == 2
MaxRules == 2
MaxFiles == 2
MaxFairLines == 2

TextsUpTo(alphabet, n) == UNION {[1..k -> alphabet] : k \in 0..n}

NotCalled == [raised |-> FALSE]

\* the texts partition_source is called on
PartitionAlphabet == {LF, SP, FF, HASH, QUOTE, NOREORDER, KW_IMPORT, "x"}

\* the lines a file is made of
FileLines ==
    { << KW_IMPORT, "a", LF >>,
      << KW_IMPORT, "t", LF >>,
      << KW_IMPORT, "a", DOT, "b", LF >>,
      << KW_FROM, "a", KW_IMPORT, "b", LF >>,
      << KW_IMPORT, "t", COMMA, "a", LF >>,
      << KW_IMPORT, "a", SP, HASH, NOREORDER, LF >>,
      << HASH, LF >>,
      << HASH, NOREORDER, LF >>,
      << LF >>,
      << "x", LF >>,
      << QUOTE, QUOTE, LF >>,
      << SP >>,
      << KW_IMPORT, "p" >>,
      << HASH, FF, LF >>,
      << KW_IMPORT, "t", CR, LF >>,
      << KW_IMPORT, "a", CR >> }

Files == {Flatten(lines) : lines \in TextsUpTo(FileLines, MaxLines)}

\* the directives of a run: --add-import, --remove-import (as keys) and --replace-import
\* (as (mod_from, mod_to, attr))
Directive(add, remove, replace) == [add |-> add, remove |-> remove, replace |-> replace]
Directives ==
    { Directive(<< >>, {}, << >>),
      Directive(<< << KW_IMPORT, "t" >> >>, {}, << >>),
      Directive(<< << KW_IMPORT, "t", COMMA, "a" >> >>, {}, << >>),
      Directive(<< >>, {}, << << << "a" >>, << "t" >>, << "b" >> >>,
                              << << "t" >>, << "p" >>, << "b" >> >> >>),
      Directive(<< >>, {ImportFromKey(<< "t" >>, << "b" >>, << >>)},
                << << << "a" >>, << "t" >>, << >> >> >>),
      Directive(<< << KW_FROM, "a", KW_IMPORT, "b" >> >>,
                {ImportFromKey(<< "a" >>, << "b" >>, << >>)}, << >>) }

(***************************************************************************)
(* Spec: a file is run through fix_file_contents, and its output again     *)
(***************************************************************************)
Init ==
    /\ pc = "start"
    /\ src = << >> /\ partitioned = NotCalled
    /\ contents \in Files
    /\ \E d \in Directives : to_add = d.add /\ to_remove = d.remove /\ replace_args = d.replace
    /\ first = NotCalled /\ second = NotCalled
    /\ NoSortKwargs /\ NoMain /\ NoScan
    /\ partitions = << >> /\ stage = "" /\ returned = << >>

FixFileContents ==
    /\ pc = "start"
    /\ first' = fix_file_contents(contents, to_add, to_remove, Replacements_make(replace_args))
    /\ pc' = "fixed"
    /\ UNCHANGED << src, partitioned, contents, to_add, to_remove, replace_args, second,
                    partitions, stage, returned,
                    sortVars, mainVars, scanVars >>

FixAgain ==
    /\ pc = "fixed"
    /\ ~first.raised
    /\ second' = fix_file_contents(first.out, to_add, to_remove, Replacements_make(replace_args))
    /\ pc' = "refixed"
    /\ UNCHANGED << src, partitioned, contents, to_add, to_remove, replace_args, first,
                    partitions, stage, returned,
                    sortVars, mainVars, scanVars >>

Next == FixFileContents \/ FixAgain

Spec == Init /\ [][Next]_vars

(***************************************************************************)
(* SpecPartition: partition_source is called on a text                     *)
(***************************************************************************)
InitPartition ==
    /\ pc = "start"
    /\ src \in TextsUpTo(PartitionAlphabet, MaxTextLen)
    /\ partitioned = NotCalled
    /\ contents = << >> /\ to_add = << >> /\ to_remove = {} /\ replace_args = << >>
    /\ first = NotCalled /\ second = NotCalled
    /\ NoSortKwargs /\ NoMain /\ NoScan
    /\ partitions = << >> /\ stage = "" /\ returned = << >>

PartitionSource ==
    /\ pc = "start"
    /\ partitioned' = partition_source(src)
    /\ pc' = "partitioned"
    /\ UNCHANGED << src, contents, to_add, to_remove, replace_args, first, second,
                    partitions, stage, returned,
                    sortVars, mainVars, scanVars >>

NextPartition == PartitionSource

SpecPartition == InitPartition /\ [][NextPartition]_vars

(***************************************************************************)
(* SpecScan: partition_source goes through the tokens of a text one by one *)
(***************************************************************************)
\* the lines of the texts: imports, an indented import, code, comments, a blank line,
\* a string on one line, one with a noreorder comment, a delimiter that opens or closes
\* a string of several lines,
\* a form feed, an import after a form feed (in column 1, not indented), an import
\* without line feed
ScanLines ==
    { << KW_IMPORT, "a", LF >>,
      << KW_FROM, "a", KW_IMPORT, "b", LF >>,
      << KW_IMPORT, "a", SP, HASH, NOREORDER, LF >>,
      << SP, KW_IMPORT, "a", LF >>,
      << "x", LF >>,
      << HASH, LF >>,
      << HASH, NOREORDER, LF >>,
      << LF >>,
      << QUOTE, QUOTE, LF >>,
      << QUOTE, QUOTE, SP, HASH, NOREORDER, LF >>,
      << QUOTE, LF >>,
      << FF, LF >>,
      << FF, KW_IMPORT, "a", LF >>,
      << KW_IMPORT, "p" >> }

InitScan ==
    /\ pc = "start"
    /\ src \in {Flatten(lines) : lines \in TextsUpTo(ScanLines, MaxLines)}
    /\ partitioned = NotCalled
    /\ contents = << >> /\ to_add = << >> /\ to_remove = {} /\ replace_args = << >>
    /\ first = NotCalled /\ second = NotCalled
    /\ NoSortKwargs /\ NoMain /\ NoScan
    /\ partitions = << >> /\ stage = "" /\ returned = << >>

\* partition_source up to its loop
PartitionBegin ==
    /\ pc = "start"
    /\ scan' = [n |-> 1, st |-> NoChunks]
    /\ pc' = "scanning"
    /\ UNCHANGED << src, partitioned, contents, to_add, to_remove, replace_args, first, second,
                    partitions, stage, returned, sortVars, mainVars >>

\* the token the loop is at
Token == generate_tokens(src)[scan.n]
Scanning == pc = "scanning" /\ scan.n <= Len(generate_tokens(src)) /\ ~scan.st.stop

\* one turn of the loop
PartitionToken ==
    /\ Scanning
    /\ scan' = [n |-> scan.n + 1,
                st |-> PartitionStep(src, get_line_offsets_by_line_no(src), scan.st, Token)]
    /\ UNCHANGED << pc, src, partitioned, contents, to_add, to_remove, replace_args, first, second,
                    partitions, stage, returned, sortVars, mainVars >>

\* after the loop: the filter, the assertion, the return
PartitionEnd ==
    /\ pc = "scanning" /\ ~Scanning
    /\ partitioned' = Partitioned(src, scan.st)
    /\ pc' = "partitioned"
    /\ UNCHANGED << src, contents, to_add, to_remove, replace_args, first, second,
                    partitions, stage, returned, sortVars, mainVars, scanVars >>

NextScan == PartitionBegin \/ PartitionToken \/ PartitionEnd

SpecScan == InitScan /\ [][NextScan]_vars

\* the lines of the texts the scan is followed through to its end: every way a region
\* is opened and every way it is closed
FairLines ==
    { << KW_IMPORT, "a", LF >>,
      << KW_IMPORT, "a", SP, HASH, NOREORDER, LF >>,
      << "x", LF >>,
      << HASH, LF >>,
      << LF >>,
      << QUOTE, QUOTE, LF >>,
      << QUOTE, LF >>,
      << KW_IMPORT, "p" >> }

InitFair ==
    /\ InitScan
    /\ src \in {Flatten(lines) : lines \in TextsUpTo(FairLines, MaxFairLines)}

\* the loop is left in the end: nothing but the loop itself delays a turn of it
FairScan == InitFair /\ [][NextScan]_vars /\ WF_vars(NextScan)

(***************************************************************************)
(* SpecStages: one stage of the pipeline is called on a list of regions    *)
(***************************************************************************)
StageRegions ==
    { CodePartition(IMPORT, << KW_IMPORT, "a", LF >>),
      CodePartition(IMPORT, << KW_IMPORT, "a", SP, HASH, LF >>),
      CodePartition(IMPORT, << KW_IMPORT, "a", DOT, "b", LF >>),
      CodePartition(IMPORT, << KW_IMPORT, "a", DOT, "b", DOT, "b", LF >>),
      CodePartition(IMPORT, << KW_IMPORT, "a", KW_AS, "x", LF >>),
      CodePartition(IMPORT, << KW_IMPORT, "a", DOT, "b", KW_AS, "x", LF >>),
      CodePartition(IMPORT, << KW_FROM, "a", KW_IMPORT, "b", LF >>),
      CodePartition(IMPORT, << KW_IMPORT, "t", LF >>),
      CodePartition(IMPORT, << KW_IMPORT, "p" >>),
      CodePartition(IMPORT, << KW_IMPORT, "t", COMMA, "a", SP, HASH, LF >>),
      CodePartition(IMPORT, << KW_FROM, "a", KW_IMPORT, "b", COMMA, "x", KW_AS, "y", LF >>),
      CodePartition(PRE_IMPORT_CODE, << HASH, LF >>),
      CodePartition(NON_CODE, << LF >>),
      CodePartition(CODE, << HASH, LF >>),
      CodePartition(CODE, << "x", LF, LF >>) }

InitStages ==
    /\ pc = "start"
    /\ src = << >> /\ partitioned = NotCalled
    /\ contents = << >> /\ to_add = << >> /\ to_remove = {} /\ replace_args = << >>
    /\ first = NotCalled /\ second = NotCalled
    /\ NoSortKwargs /\ NoMain /\ NoScan
    /\ partitions \in TextsUpTo(StageRegions, MaxRegions)
    /\ stage = "" /\ returned = << >>

RemoveDuplicatedImports ==
    /\ pc = "start"
    /\ stage' = "remove_duplicated_imports"
    /\ returned' = remove_duplicated_imports(partitions)
    /\ pc' = "returned"
    /\ UNCHANGED << src, partitioned, contents, to_add, to_remove, replace_args, first, second,
                    partitions,
                    sortVars, mainVars, scanVars >>

CombineTrailingCodeChunks ==
    /\ pc = "start"
    /\ stage' = "combine_trailing_code_chunks"
    /\ returned' = combine_trailing_code_chunks(partitions)
    /\ pc' = "returned"
    /\ UNCHANGED << src, partitioned, contents, to_add, to_remove, replace_args, first, second,
                    partitions,
                    sortVars, mainVars, scanVars >>

ApplyImportSorting ==
    /\ pc = "start"
    /\ stage' = "apply_import_sorting"
    /\ returned' = apply_import_sorting(partitions)
    /\ pc' = "returned"
    /\ UNCHANGED << src, partitioned, contents, to_add, to_remove, replace_args, first, second,
                    partitions,
                    sortVars, mainVars, scanVars >>

SeparateCommaImports ==
    /\ pc = "start"
    /\ stage' = "separate_comma_imports"
    /\ returned' = separate_comma_imports(partitions)
    /\ pc' = "returned"
    /\ UNCHANGED << src, partitioned, contents, to_add, to_remove, replace_args, first, second,
                    partitions,
                    sortVars, mainVars, scanVars >>

NextStages ==
    RemoveDuplicatedImports \/ ApplyImportSorting \/ SeparateCommaImports \/ CombineTrailingCodeChunks

SpecStages == InitStages /\ [][NextStages]_vars

(***************************************************************************)
(* SpecReplace: replace_imports on a list of regions and a list of rules   *)
(***************************************************************************)
\* the regions replace_imports is handed: single-name imports, as they leave
\* separate_comma_imports, and a region of code
ReplaceRegions ==
    { CodePartition(IMPORT, << KW_IMPORT, "a", LF >>),
      CodePartition(IMPORT, << KW_IMPORT, "a", DOT, "b", LF >>),
      CodePartition(IMPORT, << KW_IMPORT, "a", KW_AS, "x", LF >>),
      CodePartition(IMPORT, << KW_FROM, "a", KW_IMPORT, "b", LF >>),
      CodePartition(IMPORT, << KW_FROM, "a", KW_IMPORT, "b", KW_AS, "x", LF >>),
      CodePartition(IMPORT, << KW_FROM, "a", KW_IMPORT, "x", LF >>),
      CodePartition(IMPORT, << KW_FROM, "a", KW_IMPORT, "b", SP, HASH, LF >>),
      CodePartition(IMPORT, << KW_FROM, "a", DOT, "b", DOT, "b", KW_IMPORT, "x", LF >>),
      CodePartition(CODE, << "x", LF >>) }

\* the rules (mod_from, mod_to, attr) of --replace-import: with an attribute, of a
\* module, and of a module.symbol path whose new path is the symbol, another name, or
\* a dotted path that ends or does not end with the symbol
ReplaceRules ==
    { << << "a" >>, << "t" >>, << "b" >> >>,
      << << "a" >>, << "t" >>, << >> >>,
      << << "a", DOT, "b" >>, << "b" >>, << >> >>,
      << << "a", DOT, "b" >>, << "t" >>, << >> >>,
      << << "a", DOT, "b" >>, << "p", DOT, "b" >>, << >> >>,
      << << "a", DOT, "b" >>, << "p", DOT, "x" >>, << >> >> }

InitReplace ==
    /\ pc = "start"
    /\ src = << >> /\ partitioned = NotCalled
    /\ contents = << >> /\ to_add = << >> /\ to_remove = {}
    /\ first = NotCalled /\ second = NotCalled
    /\ NoSortKwargs /\ NoMain /\ NoScan
    /\ partitions \in TextsUpTo(ReplaceRegions, MaxImports) \ {<< >>}
    /\ replace_args \in TextsUpTo(ReplaceRules, MaxRules)
    /\ stage = "" /\ returned = << >>

ReplaceImports ==
    /\ pc = "start"
    /\ stage' = "replace_imports"
    /\ returned' = replace_imports(partitions, Replacements_make(replace_args))
    /\ pc' = "returned"
    /\ UNCHANGED << src, partitioned, contents, to_add, to_remove, replace_args, first, second,
                    partitions,
                    sortVars, mainVars, scanVars >>

NextReplace == ReplaceImports

SpecReplace == InitReplace /\ [][NextReplace]_vars

(***************************************************************************)
(* SpecSeparate: the apply_import_sorting of reorder_python_imports/main.py *)
(* on a list of regions                                                    *)
(***************************************************************************)
\* imports of the standard library, of a third party and of the application, explicit
\* relative imports, and a region of code
SeparateRegions ==
    { CodePartition(IMPORT, << KW_IMPORT, "a", LF >>),
      CodePartition(IMPORT, << KW_IMPORT, "t", LF >>),
      CodePartition(IMPORT, << KW_IMPORT, "p", LF >>),
      CodePartition(IMPORT, << KW_FROM, "p", KW_IMPORT, "b", LF >>),
      CodePartition(IMPORT, << KW_FROM, DOT, KW_IMPORT, "x", LF >>),
      CodePartition(IMPORT, << KW_FROM, DOT, "a", KW_IMPORT, "b", LF >>),
      CodePartition(CODE, << "x", LF >>) }

InitSeparate ==
    /\ pc = "start"
    /\ src = << >> /\ partitioned = NotCalled
    /\ contents = << >> /\ to_add = << >> /\ to_remove = {} /\ replace_args = << >>
    /\ first = NotCalled /\ second = NotCalled
    /\ separate_relative \in BOOLEAN /\ separate_from_import \in BOOLEAN
    /\ NoMain /\ NoScan
    /\ partitions \in TextsUpTo(SeparateRegions, MaxRegions)
    /\ stage = "" /\ returned = << >>

MainApplyImportSorting ==
    /\ pc = "start"
    /\ stage' = "apply_import_sorting"
    /\ returned' = main_apply_import_sorting(partitions, separate_relative, separate_from_import)
    /\ pc' = "returned"
    /\ UNCHANGED << src, partitioned, contents, to_add, to_remove, replace_args, first, second,
                    partitions, sortVars, mainVars, scanVars >>

NextSeparate == MainApplyImportSorting

SpecSeparate == InitSeparate /\ [][NextSeparate]_vars

(***************************************************************************)
(* SpecMain: main over a list of files                                     *)
(***************************************************************************)
\* the bytes of a file: sorted imports, imports to reorder, the same two after a
\* comment with a character of two bytes, bytes that are not UTF-8, a text that
\* partition_source rejects, a string that is not closed (the token generator raises),
\* the empty file
FileBytes ==
    { << KW_IMPORT, "a", LF >>,
      << QUOTE, LF, KW_IMPORT, "a", LF >>,
      << KW_IMPORT, "t", COMMA, "a", LF >>,
      << HASH, XC3, XA9, LF, KW_IMPORT, "a", LF >>,
      << HASH, XC3, XA9, LF, KW_IMPORT, "t", LF, KW_IMPORT, "a", LF >>,
      << X98, KW_IMPORT, "a", LF >>,
      << SP >>,
      << >> }
DiskFiles == {"f", "g"}
FileNames == DiskFiles \cup {"-"}

InitMain ==
    /\ pc = "start"
    /\ src = << >> /\ partitioned = NotCalled
    /\ contents = << >> /\ to_add = << >> /\ to_remove = {} /\ replace_args = << >>
    /\ first = NotCalled /\ second = NotCalled
    /\ NoSortKwargs /\ NoScan
    /\ partitions = << >> /\ stage = "" /\ returned = << >>
    /\ filenames \in TextsUpTo(FileNames, MaxFiles)
    /\ exit_zero_even_if_changed \in BOOLEAN
    /\ disk \in [DiskFiles -> FileBytes]
    /\ stdin \in {<< KW_IMPORT, "a", LF >>, << KW_IMPORT, "t", COMMA, "a", LF >>}
    /\ stdout = << >> /\ stderr = << >>
    /\ index = 0 /\ retv = 0 /\ calls = << >>

\* main up to its loop: the warning when $PYTHONPATH is set, retv = 0
MainStart ==
    /\ pc = "start"
    /\ \E pythonpath \in BOOLEAN : stderr' = IF pythonpath THEN << PythonPathSet >> ELSE << >>
    /\ retv' = 0 /\ index' = 1
    /\ stage' = "main"
    /\ pc' = "loop"
    /\ UNCHANGED << src, partitioned, contents, to_add, to_remove, replace_args, first, second,
                    partitions, returned, sortVars, scanVars,
                    filenames, exit_zero_even_if_changed, disk, stdin, stdout, calls >>

\* sys.stdin.buffer.read() or open(filename, 'rb').read()
Read(filename) == IF filename = "-" THEN stdin ELSE disk[filename]

\* the files after a call of _fix_file
Written(filename, outcome) ==
    IF outcome.written = << >> THEN disk ELSE [disk EXCEPT ![filename] = outcome.written[1]]

\* retv |= _fix_file(...), or the exception of the call leaves main
Called(filename, outcome) ==
    /\ stdin' = IF filename = "-" THEN << >> ELSE stdin
    /\ disk' = Written(filename, outcome)
    /\ stdout' = stdout \o outcome.printed
    /\ stderr' = stderr \o outcome.errors
    /\ calls' = Append(calls, [filename |-> filename, read |-> Read(filename),
                               before |-> disk, after |-> Written(filename, outcome)])
    /\ retv' = IF outcome.raised THEN retv ELSE BitOr(retv, outcome.ret)
    /\ index' = IF outcome.raised THEN index ELSE index + 1
    /\ pc' = IF outcome.raised THEN "raised" ELSE "loop"

\* one turn of the loop of main over args.filenames
FixFile ==
    /\ pc = "loop" /\ index <= Len(filenames)
    /\ Called(filenames[index],
              _fix_file(filenames[index], Read(filenames[index]), exit_zero_even_if_changed,
                        to_add, to_remove, Replacements_make(replace_args)))
    /\ UNCHANGED << src, partitioned, contents, to_add, to_remove, replace_args, first, second,
                    partitions, stage, returned, sortVars, scanVars,
                    filenames, exit_zero_even_if_changed >>

\* return retv
MainReturn ==
    /\ pc = "loop" /\ index > Len(filenames)
    /\ pc' = "returned"
    /\ UNCHANGED << src, partitioned, contents, to_add, to_remove, replace_args, first, second,
                    partitions, stage, returned, sortVars, mainVars, scanVars >>

NextMain == MainStart \/ FixFile \/ MainReturn

SpecMain == InitMain /\ [][NextMain]_vars

(***************************************************************************)
(* Properties                                                              *)
(***************************************************************************)
IsSuffixOf(s, t) == Len(s) <= Len(t) /\ SubSeq(t, Len(t) - Len(s) + 1, Len(t)) = s

\* the elements of seq at the indices in K, in order
SubSeqAt(seq, K) == LET idx == SortedSeq(K) IN [n \in 1..Len(idx) |-> seq[idx[n]]]

Fixed == pc \in {"fixed", "refixed"}
NoDirectives == to_add = << >> /\ to_remove = {} /\ replace_args = << >>
Returned(name) == pc = "returned" /\ stage = name

\* C1: for every text that tokenizes, partition_source returns regions whose texts
\* concatenate to the text, so its closing assertion never fails; and when the scan
\* reaches the end marker with no pending region, no source text is left unconsumed
C1_RoundTrip ==
    (pc = "partitioned" /\ ~partitioned.raised) =>
        /\ ~partitioned.asserted
        /\ _partitions_to_src(partitioned.chunks) = src
        /\ (partitioned.pending = "None" /\ ~partitioned.stop) => partitioned.startpos >= Len(src)

\* C2: for every input and every fixed choice of directives, fix_file_contents run on
\* its own output returns that output
C2_Idempotent ==
    pc = "refixed" => (~second.raised /\ second.out = first.out)

\* the indices in contents of the '#' of every comment that holds noreorder
NoreorderComments ==
    LET normalized == NormalizeNewlines(contents)
        toks == generate_tokens(normalized)
        row_starts == << 1 >> \o SortedSeq({k + 1 : k \in {j \in 1..Len(normalized) : normalized[j] = LF}})
        at == {row_starts[toks[n].srow] + toks[n].scol :
                  n \in {m \in 1..Len(toks) : toks[m].type = "COMMENT" /\ toks[m].text = NOREORDER}}
    IN  {k \in 1..Len(contents) :
            /\ contents[k] = HASH
            /\ Len(NormalizeNewlines(SubSeq(contents, 1, k - 1))) + 1 \in at}

\* C3 as stated: the text from a noreorder comment to the end of the file stands
\* byte-identical at the end of the output of fix_file_contents
C3_FrozenByteIdentical ==
    (Fixed /\ ~first.raised) =>
        \A k \in NoreorderComments : IsSuffixOf(SliceFrom(contents, k - 1), first.out)

\* C3 amended: whenever fix_file_contents returns, the text from a noreorder comment
\* to the end of the file stands at the end of the output with its trailing whitespace
\* replaced by one line terminator and every line terminator in it replaced by the
\* terminator chosen for the file
C3_FrozenUpToEnding ==
    (Fixed /\ ~first.raised) =>
        \A k \in NoreorderComments :
            IsSuffixOf(ReplaceAtom(RStrip(NormalizeNewlines(SliceFrom(contents, k - 1))) \o << LF >>,
                                   LF, first.nl),
                       first.out)

\* an inline noreorder comment on an import that follows another import, in a file
\* whose end is not byte-identical in the output
C3_Witness ==
    /\ pc = "fixed" /\ ~first.raised
    /\ \E k \in NoreorderComments :
           /\ k > 2 /\ contents[k - 1] = SP
           /\ contents[1] = KW_IMPORT
           /\ \E j \in 1..(k - 1) : contents[j] \in {LF, CR}
           /\ ~IsSuffixOf(SliceFrom(contents, k - 1), first.out)

\* the import regions of a list and the descriptor of one
ImportsOf(ps) == SelectSeq(ps, LAMBDA partition : partition.code_type = IMPORT)
DescriptorOf(partition) == descriptor(import_obj_from_str(partition.src))
PlainUnaliased(partition) ==
    /\ partition.code_type = IMPORT
    /\ import_obj_from_str(partition.src).type = "Import"
    /\ key(import_obj_from_str(partition.src))[2] = << >>
PlainAliased(partition) ==
    /\ partition.code_type = IMPORT
    /\ import_obj_from_str(partition.src).type = "Import"
    /\ key(import_obj_from_str(partition.src))[2] # << >>
ModuleOf(partition) == key(import_obj_from_str(partition.src))[1]
\* n names a dotted submodule of m
SubmoduleOf(n, m) == Len(m) < Len(n) /\ SubSeq(n, 1, Len(m)) = m /\ n[Len(m) + 1] = DOT

\* ps[i] is the first import region of ps with its descriptor
FirstOfDescriptor(ps, i) ==
    /\ ps[i].code_type = IMPORT
    /\ \A j \in 1..(i - 1) : ps[j].code_type = IMPORT => DescriptorOf(ps[j]) # DescriptorOf(ps[i])

\* ps[i] is an un-aliased plain import and ps holds an un-aliased plain import of a
\* dotted submodule of its module
Superseded(ps, i) ==
    /\ PlainUnaliased(ps[i])
    /\ \E j \in 1..Len(ps) : PlainUnaliased(ps[j]) /\ SubmoduleOf(ModuleOf(ps[j]), ModuleOf(ps[i]))

\* imps is in canonical order: by group, and by the descriptor order within a group
CanonicalOrder(imps) ==
    \A i \in 1..(Len(imps) - 1) :
        LET d == DescriptorOf(imps[i])
            e == DescriptorOf(imps[i + 1])
        IN  \/ classify_base(d) < classify_base(e)
            \/ classify_base(d) = classify_base(e) /\ DescriptorLess(d, e)

\* the input requires no change: the file tokenizes and its top-level imports are one
\* name per statement, duplicate-free and in canonical group and sort order
RequiresNoChange ==
    LET p == partition_source(NormalizeNewlines(contents))
        imps == ImportsOf(p.chunks)
    IN  /\ ~p.raised
        /\ \A i \in 1..Len(imps) :
               /\ import_obj_from_str(imps[i].src) # SyntaxError
               /\ ~is_multiple(import_obj_from_str(imps[i].src))
               /\ FirstOfDescriptor(imps, i)
               /\ ~Superseded(imps, i)
        /\ CanonicalOrder(imps)

\* C4: with empty directives, for an input that requires no change, fix_file_contents
\* returns the input byte-identical, line terminators included
C4_NoChangeIdentity ==
    (Fixed /\ NoDirectives /\ RequiresNoChange) => (~first.raised /\ first.out = contents)

\* C5: fix_file_contents picks a most frequent line terminator of the input among
\* CRLF, CR and LF, and every line terminator of its output is that one
C5_MajorityTerminator ==
    Fixed =>
        LET count(nl) == IF nl = << CR, LF >> THEN Cardinality(EndsCRLF(contents))
                         ELSE IF nl = << CR >> THEN Cardinality(EndsCR(contents))
                         ELSE Cardinality(EndsLF(contents))
            used(nl) == IF nl = << CR, LF >> THEN EndsCRLF(first.out)
                        ELSE IF nl = << CR >> THEN EndsCR(first.out)
                        ELSE EndsLF(first.out)
            endings == {<< CR, LF >>, << CR >>, << LF >>}
        IN  /\ first.nl \in endings
            /\ \A nl \in endings : count(first.nl) >= count(nl)
            /\ ~first.raised => \A nl \in endings \ {first.nl} : used(nl) = {}

\* a file of mixed terminators with CR the most frequent, rewritten with CR only
C5_Witness ==
    /\ pc = "fixed" /\ ~first.raised
    /\ EndsLF(contents) # {}
    /\ Cardinality(EndsCR(contents)) > Cardinality(EndsLF(contents))
    /\ first.nl = << CR >>
    /\ Cardinality(EndsCR(first.out)) >= 2

PairwiseDistinct(ps) == \A i \in 1..Len(ImportsOf(ps)) : FirstOfDescriptor(ImportsOf(ps), i)

\* the import block is in canonical order with exactly one blank-line region between
\* two groups and none at its ends
BlockOrdered(ps) ==
    LET block == SelectSeq(ps, LAMBDA partition : partition.code_type \in {IMPORT, NON_CODE})
        group(i) == classify_base(DescriptorOf(block[i]))
    IN  /\ CanonicalOrder(ImportsOf(ps))
        /\ \A i \in 1..Len(block) :
               /\ block[i].code_type = NON_CODE =>
                      /\ block[i].src = << LF >>
                      /\ 1 < i /\ i < Len(block)
                      /\ block[i - 1].code_type = IMPORT /\ block[i + 1].code_type = IMPORT
                      /\ group(i - 1) # group(i + 1)
               /\ (i < Len(block) /\ block[i].code_type = IMPORT /\ block[i + 1].code_type = IMPORT) =>
                      group(i) = group(i + 1)

C8_KeepsFirst ==
    Returned("remove_duplicated_imports") =>
        returned = SubSeqAt(partitions, {i \in 1..Len(partitions) :
                                            partitions[i].code_type = IMPORT => FirstOfDescriptor(partitions, i)})

\* C8 amended: it keeps of every descriptor exactly the first import region, unless
\* that region is an un-aliased plain import of a module of which the list holds an
\* un-aliased plain import of a dotted submodule; the other regions and the order stay
C8_KeepsFirstNotSuperseded ==
    Returned("remove_duplicated_imports") =>
        returned = SubSeqAt(partitions, {i \in 1..Len(partitions) :
                                            partitions[i].code_type = IMPORT =>
                                                /\ FirstOfDescriptor(partitions, i)
                                                /\ ~Superseded(partitions, i)})

\* two regions of one descriptor and different text: the first is kept, the second not
C8_Witness ==
    /\ Returned("remove_duplicated_imports")
    /\ \E i, j \in 1..Len(partitions) :
           /\ i < j
           /\ partitions[i].code_type = IMPORT /\ partitions[j].code_type = IMPORT
           /\ DescriptorOf(partitions[i]) = DescriptorOf(partitions[j])
           /\ partitions[i] # partitions[j]
           /\ partitions[i] \in Range(returned)
           /\ partitions[j] \notin Range(returned)

\* C9: remove_duplicated_imports drops an un-aliased plain import of a module whenever
\* the list holds an un-aliased plain import of a dotted submodule of it, and the
\* imports that stay are the same when the list comes in the opposite order
C9_ParentDropped ==
    Returned("remove_duplicated_imports") =>
        /\ \A i \in 1..Len(partitions) :
               Superseded(partitions, i) =>
                   \A n \in 1..Len(returned) :
                       returned[n].code_type = IMPORT =>
                           DescriptorOf(returned[n]) # DescriptorOf(partitions[i])
        /\ {DescriptorOf(partition) : partition \in Range(ImportsOf(returned))} =
           {DescriptorOf(partition) :
               partition \in Range(ImportsOf(remove_duplicated_imports(Reverse(partitions))))}

\* the parent import comes after the import of a submodule two levels down and is dropped
C9_Witness ==
    /\ Returned("remove_duplicated_imports")
    /\ \E i, j \in 1..Len(partitions) :
           /\ i < j
           /\ partitions[i] = CodePartition(IMPORT, << KW_IMPORT, "a", DOT, "b", DOT, "b", LF >>)
           /\ partitions[j] = CodePartition(IMPORT, << KW_IMPORT, "a", LF >>)
    /\ CodePartition(IMPORT, << KW_IMPORT, "a", LF >>) \notin Range(returned)
    /\ CodePartition(IMPORT, << KW_IMPORT, "a", DOT, "b", DOT, "b", LF >>) \in Range(returned)

\* C10: aliased plain imports take no part in the redundancy rule: an aliased import
\* of a submodule never causes the import of its parent to be dropped, an aliased
\* import is never dropped because of a submodule import, and of an aliased import
\* only the exact duplicates are removed
C10_AliasedExempt ==
    Returned("remove_duplicated_imports") =>
        \A i \in 1..Len(partitions) :
            /\ (PlainAliased(partitions[i]) /\ FirstOfDescriptor(partitions, i)) =>
                   /\ partitions[i] \in Range(returned)
                   /\ Cardinality({n \in 1..Len(returned) :
                                      /\ returned[n].code_type = IMPORT
                                      /\ DescriptorOf(returned[n]) = DescriptorOf(partitions[i])}) = 1
            /\ (/\ PlainUnaliased(partitions[i]) /\ FirstOfDescriptor(partitions, i)
                /\ ~Superseded(partitions, i)) =>
                   partitions[i] \in Range(returned)

\* import a, import a.b as x and import a as x: all three stay
C10_Witness ==
    /\ Returned("remove_duplicated_imports")
    /\ \A r \in { CodePartition(IMPORT, << KW_IMPORT, "a", LF >>),
                  CodePartition(IMPORT, << KW_IMPORT, "a", DOT, "b", KW_AS, "x", LF >>),
                  CodePartition(IMPORT, << KW_IMPORT, "a", KW_AS, "x", LF >>) } :
           r \in Range(partitions) /\ r \in Range(returned)

\* the text of a statement that imports the one name alias of the object obj, without
\* a comment
SingleNameText(obj, alias) ==
    (IF obj.type = "Import" THEN << KW_IMPORT >> ELSE << KW_FROM >> \o obj.module \o << KW_IMPORT >>)
    \o alias.name
    \o (IF alias.asname = << >> THEN << >> ELSE << KW_AS >> \o alias.asname)
    \o << LF >>

\* C11: separate_comma_imports replaces an IMPORT region of k > 1 names by k
\* single-name IMPORT regions, in place and in the order of the names, without the
\* inline comment; every other region is returned unchanged; no multi-name IMPORT
\* region remains
C11_CommaSeparated ==
    Returned("separate_comma_imports") =>
        /\ returned =
               Flatten([i \in 1..Len(partitions) |->
                           LET obj == import_obj_from_str(partitions[i].src)
                           IN  IF partitions[i].code_type = IMPORT /\ Len(obj.names) > 1
                               THEN [n \in 1..Len(obj.names) |->
                                        CodePartition(IMPORT, SingleNameText(obj, obj.names[n]))]
                               ELSE << partitions[i] >>])
        /\ \A n \in 1..Len(returned) :
               returned[n].code_type = IMPORT => Len(import_obj_from_str(returned[n].src).names) = 1

\* a combined import with an inline comment between a commented single-name import and
\* a combined from-import
C11_Witness ==
    /\ Returned("separate_comma_imports")
    /\ partitions = << CodePartition(IMPORT, << KW_IMPORT, "a", SP, HASH, LF >>),
                       CodePartition(IMPORT, << KW_IMPORT, "t", COMMA, "a", SP, HASH, LF >>),
                       CodePartition(IMPORT, << KW_FROM, "a", KW_IMPORT, "b", COMMA, "x", KW_AS, "y", LF >>) >>
    /\ Len(returned) = 5
    /\ returned[2] = CodePartition(IMPORT, << KW_IMPORT, "t", LF >>)
    /\ returned[5] = CodePartition(IMPORT, << KW_FROM, "a", KW_IMPORT, "x", KW_AS, "y", LF >>)

\* a from-import region with one name
IsFromImport(partition) ==
    partition.code_type = IMPORT /\ import_obj_from_str(partition.src).type = "ImportFrom"
SymbolOf(partition) == import_obj_from_str(partition.src).names[1].name
AliasOf(partition) == import_obj_from_str(partition.src).names[1].asname
FromModuleOf(partition) == import_obj_from_str(partition.src).module
\* the statement from module import symbol [as asname]
FromText(module, symbol, asname) ==
    << KW_FROM >> \o module \o << KW_IMPORT >> \o symbol
    \o (IF asname = << >> THEN << >> ELSE << KW_AS >> \o asname) \o << LF >>

\* C12: a rule (m, n, a) with an attribute, supplied alone, rewrites the regions that
\* are from m import a, aliased or not, to import from n, and leaves every other
\* region, the other from-imports of m among them, as it was
C12_AttributeRuleOnly ==
    (Returned("replace_imports") /\ Len(replace_args) = 1 /\ replace_args[1][3] # << >>) =>
        /\ Len(returned) = Len(partitions)
        /\ \A i \in 1..Len(partitions) :
               IF /\ IsFromImport(partitions[i])
                  /\ FromModuleOf(partitions[i]) = replace_args[1][1]
                  /\ SymbolOf(partitions[i]) = replace_args[1][3]
               THEN returned[i] = CodePartition(IMPORT, FromText(replace_args[1][2],
                                                                 replace_args[1][3],
                                                                 AliasOf(partitions[i])))
               ELSE returned[i] = partitions[i]

\* from a import b as x is rewritten next to from a import x, which is kept
C12_Witness ==
    /\ Returned("replace_imports")
    /\ replace_args = << << << "a" >>, << "t" >>, << "b" >> >> >>
    /\ partitions = << CodePartition(IMPORT, << KW_FROM, "a", KW_IMPORT, "b", KW_AS, "x", LF >>),
                       CodePartition(IMPORT, << KW_FROM, "a", KW_IMPORT, "x", LF >>) >>
    /\ returned = << CodePartition(IMPORT, << KW_FROM, "t", KW_IMPORT, "b", KW_AS, "x", LF >>),
                     CodePartition(IMPORT, << KW_FROM, "a", KW_IMPORT, "x", LF >>) >>

\* C13: replace_imports returns every plain import (import a, import a.b,
\* import a as x) as it was, whatever the rules
C13_PlainImportKept ==
    Returned("replace_imports") =>
        /\ Len(returned) = Len(partitions)
        /\ \A i \in 1..Len(partitions) :
               (partitions[i].code_type = IMPORT /\ ~IsFromImport(partitions[i]))
                   => returned[i] = partitions[i]

\* import a and import a.b under a rule whose old path is a: the one equals the old
\* path, the other is prefixed by it
C13_Witness ==
    /\ Returned("replace_imports")
    /\ \E k \in 1..Len(replace_args) : replace_args[k] = << << "a" >>, << "t" >>, << >> >>
    /\ partitions = << CodePartition(IMPORT, << KW_IMPORT, "a", LF >>),
                       CodePartition(IMPORT, << KW_IMPORT, "a", DOT, "b", LF >>) >>
    /\ returned = partitions

\* what replace_imports makes of the region when rule is the only rule
Alone(partition, rule) == replace_imports(<< partition >>, Replacements_make(<< rule >>))[1]
\* the positions in args of the rules that, supplied alone, rewrite the region
Matching(partition, args) == {k \in 1..Len(args) : Alone(partition, args[k]) # partition}
Least(K) == CHOOSE k \in K : \A l \in K : k <= l
Greatest(K) == CHOOSE k \in K : \A l \in K : l <= k

\* C14 as stated: a region that several of the rules match is rewritten as the first
\* of them in the supplied order rewrites it
C14_FirstSupplied ==
    Returned("replace_imports") =>
        \A i \in 1..Len(partitions) :
            Cardinality(Matching(partitions[i], replace_args)) > 1
                => returned[i] = Alone(partitions[i], replace_args[Least(Matching(partitions[i], replace_args))])

\* the positions of the rules that give an entry for (mod, symbol): a rule with that
\* attribute, or a rule without attribute from mod.symbol to a dotted path that
\* ends with the symbol
ExactRules(args, mod, symbol) ==
    {k \in 1..Len(args) :
        \/ args[k][3] = symbol /\ args[k][1] = mod
        \/ /\ args[k][3] = << >>
           /\ args[k][1] = mod \o << DOT >> \o symbol
           /\ Len(args[k][2]) > Len(symbol) + 1
           /\ IsSuffixOf(<< DOT >> \o symbol, args[k][2])}
\* the positions of the rules without attribute whose old path is path
ModuleRules(args, path) == {k \in 1..Len(args) : args[k][3] = << >> /\ args[k][1] = path}
\* the dotted prefixes of mod that are the old path of a rule without attribute
RuledPrefixes(args, mod) == {n \in 1..(Len(mod) - 1) : mod[n + 1] = DOT /\ ModuleRules(args, SubSeq(mod, 1, n)) # {}}

\* the position of the rule applied to from mod import symbol [as asname], 0 for none:
\* by the kind of the match, and among the rules of one kind the last one supplied
Applied(args, mod, symbol, asname) ==
    IF ExactRules(args, mod, symbol) # {} THEN Greatest(ExactRules(args, mod, symbol))
    ELSE IF /\ ModuleRules(args, mod \o << DOT >> \o symbol) # {}
            /\ \/ asname # << >>
               \/ args[Greatest(ModuleRules(args, mod \o << DOT >> \o symbol))][2] = symbol
    THEN Greatest(ModuleRules(args, mod \o << DOT >> \o symbol))
    ELSE IF ModuleRules(args, mod) # {} THEN Greatest(ModuleRules(args, mod))
    ELSE IF RuledPrefixes(args, mod) # {}
    THEN Greatest(ModuleRules(args, SubSeq(mod, 1, Least(RuledPrefixes(args, mod)))))
    ELSE 0

AppliedTo(partition, args) ==
    Applied(args, FromModuleOf(partition), SymbolOf(partition), AliasOf(partition))

\* C14: every from-import is rewritten by exactly one rule or by none: the rule
\* chosen by the kind of its match (an entry for module and symbol, then the path
\* module.symbol, then the module, then its shortest ruled prefix) and, among the
\* rules of one kind, the last one supplied
C14_OneRuleByKind ==
    Returned("replace_imports") =>
        \A i \in 1..Len(partitions) :
            IsFromImport(partitions[i]) =>
                returned[i] = IF AppliedTo(partitions[i], replace_args) = 0 THEN partitions[i]
                              ELSE Alone(partitions[i], replace_args[AppliedTo(partitions[i], replace_args)])

\* two rules match from a import b: the rule from a.b to p.b, supplied first, and the
\* rule from a to t for the attribute b, which is applied
C14_Witness ==
    /\ Returned("replace_imports")
    /\ replace_args = << << << "a", DOT, "b" >>, << "p", DOT, "b" >>, << >> >>,
                         << << "a" >>, << "t" >>, << "b" >> >> >>
    /\ partitions = << CodePartition(IMPORT, << KW_FROM, "a", KW_IMPORT, "b", LF >>) >>
    /\ Matching(partitions[1], replace_args) = {1, 2}
    /\ returned = << CodePartition(IMPORT, << KW_FROM, "t", KW_IMPORT, "b", LF >>) >>

\* the name a single-name import statement binds
BoundName(text) ==
    LET obj == import_obj_from_str(text)
        name == obj.names[1].name
    IN  IF obj.names[1].asname # << >> THEN obj.names[1].asname
        ELSE IF obj.type = "ImportFrom" THEN name
        ELSE << name[1] >>

BoundNameKept ==
    \A i \in 1..Len(partitions) :
        IsFromImport(partitions[i]) => BoundName(returned[i].src) = BoundName(partitions[i].src)

\* the one rule supplied has no attribute and its old path is module.symbol of the
\* un-aliased from-import partition
ModuleSymbolRule(partition) ==
    /\ Len(replace_args) = 1 /\ replace_args[1][3] = << >>
    /\ IsFromImport(partition) /\ AliasOf(partition) = << >>
    /\ replace_args[1][1] = FromModuleOf(partition) \o << DOT >> \o SymbolOf(partition)

\* C15 as stated: the bound name of a from-import is never changed, and a rule from
\* module.symbol rewrites the un-aliased from module import symbol only when its new
\* path is the symbol
C15_AppliedOnlyToSymbol ==
    Returned("replace_imports") =>
        /\ BoundNameKept
        /\ \A i \in 1..Len(partitions) :
               ModuleSymbolRule(partitions[i]) =>
                   returned[i] = IF replace_args[1][2] = SymbolOf(partitions[i])
                                 THEN CodePartition(IMPORT, << KW_IMPORT >> \o SymbolOf(partitions[i]) \o << LF >>)
                                 ELSE partitions[i]

\* C15: the bound name of a from-import is never changed; a rule from module.symbol
\* rewrites the un-aliased from module import symbol to import symbol when its new
\* path is the symbol, to from base import symbol when its new path is base.symbol,
\* and not at all otherwise
C15_BoundNameKept ==
    Returned("replace_imports") =>
        /\ BoundNameKept
        /\ \A i \in 1..Len(partitions) :
               ModuleSymbolRule(partitions[i]) =>
                   returned[i] =
                       IF replace_args[1][2] = SymbolOf(partitions[i])
                       THEN CodePartition(IMPORT, << KW_IMPORT >> \o SymbolOf(partitions[i]) \o << LF >>)
                       ELSE IF /\ RPartition(replace_args[1][2]).after = SymbolOf(partitions[i])
                               /\ RPartition(replace_args[1][2]).before # << >>
                       THEN CodePartition(IMPORT, FromText(RPartition(replace_args[1][2]).before,
                                                           SymbolOf(partitions[i]), << >>))
                       ELSE partitions[i]

\* the rule from a.b to p.b rewrites from a import b, un-aliased and aliased, and
\* both keep the name they bind
C15_Witness ==
    /\ Returned("replace_imports")
    /\ replace_args = << << << "a", DOT, "b" >>, << "p", DOT, "b" >>, << >> >> >>
    /\ partitions = << CodePartition(IMPORT, << KW_FROM, "a", KW_IMPORT, "b", LF >>),
                       CodePartition(IMPORT, << KW_FROM, "a", KW_IMPORT, "b", KW_AS, "x", LF >>) >>
    /\ returned = << CodePartition(IMPORT, << KW_FROM, "p", KW_IMPORT, "b", LF >>),
                     CodePartition(IMPORT, << KW_FROM, "p", KW_IMPORT, "b", KW_AS, "x", LF >>) >>

\* the import regions of the text returned for the file
OutImports == ImportsOf(first.partitioned)
\* the modules named by the statements of --add-import
AddedModules ==
    UNION {{import_obj_from_str(to_add[k]).names[n].name :
               n \in 1..Len(import_obj_from_str(to_add[k]).names)} : k \in 1..Len(to_add)}
\* the statement import module, on a line of its own
PlainLine(module) == << KW_IMPORT >> \o module \o << LF >>
\* how many elements of seq satisfy Test
CountOf(seq, Test(_)) == Cardinality({i \in 1..Len(seq) : Test(seq[i])})
\* a file was given imports to add, and nothing to remove or to replace, and
\* fix_file_contents returned
AddedTo ==
    /\ Fixed /\ ~first.raised
    /\ to_add # << >> /\ to_remove = {} /\ replace_args = << >>
    /\ Strip(contents) # << >>

\* C16 as stated: each module of an added statement has a single-name import region of
\* its own in the import block of the output, and an added import that already is a
\* line of the file is a line of the output exactly once
C16_AddedOnce ==
    AddedTo =>
        \A module \in AddedModules :
            /\ CountOf(OutImports, LAMBDA partition : partition.src = PlainLine(module)) = 1
            /\ CountOf(LinesOf(NormalizeNewlines(contents)), LAMBDA line : StatementWords(line) = << KW_IMPORT >> \o module) > 0
                   => CountOf(LinesOf(NormalizeNewlines(first.out)), LAMBDA line : StatementWords(line) = << KW_IMPORT >> \o module) = 1

\* the import block holds an un-aliased plain import of a dotted submodule of module
SubmoduleImported(ps, module) ==
    \E i \in 1..Len(ps) : PlainUnaliased(ps[i]) /\ SubmoduleOf(ModuleOf(ps[i]), module)

\* C16: every import region of the output imports one name, and each module of an
\* added statement has exactly one plain import region in the import block of the
\* output, or none when the block imports a dotted submodule of it
C16_AddedOnceInBlock ==
    AddedTo =>
        /\ \A i \in 1..Len(OutImports) : Len(import_obj_from_str(OutImports[i].src).names) = 1
        /\ \A module \in AddedModules :
               CountOf(OutImports, LAMBDA partition : PlainUnaliased(partition) /\ ModuleOf(partition) = module)
                   = IF SubmoduleImported(OutImports, module) THEN 0 ELSE 1

\* import t, a is added to a file that imports t already: t and a are imported by a
\* statement each, t once
C16_Witness ==
    /\ AddedTo
    /\ to_add = << << KW_IMPORT, "t", COMMA, "a" >> >>
    /\ contents = << KW_IMPORT, "t", LF, "x", LF >>
    /\ first.out = << KW_IMPORT, "a", LF, LF, KW_IMPORT, "t", LF, "x", LF >>

\* the regions of a text are a docstring, one blank line and then imports only
DocstringBlankImports(chunks) ==
    /\ Len(chunks) > 2
    /\ chunks[1] = CodePartition(PRE_IMPORT_CODE, << QUOTE, QUOTE, LF >>)
    /\ chunks[2] = CodePartition(NON_CODE, << LF >>)
    /\ \A i \in 3..Len(chunks) : chunks[i].code_type = IMPORT

\* C17: with empty directives, a file that is a leading docstring, one blank line and
\* a sorted import block ended by a newline is returned unchanged: the blank line stays
C17_DocstringBlankKept ==
    (/\ Fixed /\ NoDirectives /\ RequiresNoChange /\ EndsWithNewline(contents)
     /\ DocstringBlankImports(partition_source(NormalizeNewlines(contents)).chunks))
        => (~first.raised /\ first.out = contents)

\* the positions in seq of the explicit-relative imports, and of the other imports
RelativeAt(seq) ==
    {i \in 1..Len(seq) : seq[i].code_type = IMPORT /\ is_explicit_relative(DescriptorOf(seq[i]))}
OtherAt(seq) ==
    {i \in 1..Len(seq) : seq[i].code_type = IMPORT /\ ~is_explicit_relative(DescriptorOf(seq[i]))}

\* C18: with separate_relative, the explicit-relative imports come after every other
\* import with exactly one blank-line region in between, and when all the imports are
\* explicit-relative no blank-line region is emitted
C18_RelativeLast ==
    (Returned("apply_import_sorting") /\ separate_relative /\ RelativeAt(returned) # {}) =>
        IF OtherAt(returned) = {}
        THEN \A i \in 1..Len(returned) : returned[i].code_type # NON_CODE
        ELSE /\ Least(RelativeAt(returned)) = Greatest(OtherAt(returned)) + 2
             /\ returned[Greatest(OtherAt(returned)) + 1] = CodePartition(NON_CODE, << LF >>)

\* the bytes read by a call of _fix_file are not UTF-8
Undecodable(call) == decode(call.read).error
\* the bytes read decode to a text that fix_file_contents returns changed
Changed(call) ==
    /\ ~decode(call.read).error
    /\ ~fix_file_contents(decode(call.read).text, to_add, to_remove, Replacements_make(replace_args)).raised
    /\ fix_file_contents(decode(call.read).text, to_add, to_remove, Replacements_make(replace_args)).out
           # decode(call.read).text
\* the bytes of what fix_file_contents returns for the bytes read
FixedBytes(call) ==
    encode(fix_file_contents(decode(call.read).text, to_add, to_remove, Replacements_make(replace_args)).out)

\* C19: when main returns, every file listed went through _fix_file; the value is not
\* 0 exactly when some file could not be decoded or, --exit-zero-even-if-changed not
\* given, some file was changed, wherever in the list; and with or without the option
\* a changed file holds its new contents after its call and an unchanged one is not
\* written
C19_ExitStatus ==
    Returned("main") =>
        /\ Len(calls) = Len(filenames)
        /\ retv # 0 <=> \E k \in 1..Len(calls) :
                            \/ Undecodable(calls[k])
                            \/ ~exit_zero_even_if_changed /\ Changed(calls[k])
        /\ \A k \in 1..Len(calls) :
               calls[k].filename # "-" =>
                   calls[k].after = IF Changed(calls[k])
                                    THEN [calls[k].before EXCEPT ![calls[k].filename] = FixedBytes(calls[k])]
                                    ELSE calls[k].before

\* a changed file followed by an unchanged one: main returns 1
C19_Witness ==
    /\ Returned("main")
    /\ ~exit_zero_even_if_changed
    /\ filenames = << "f", "g" >>
    /\ Changed(calls[1]) /\ ~Changed(calls[2]) /\ ~Undecodable(calls[2])
    /\ disk["f"] = << KW_IMPORT, "a", LF, LF, KW_IMPORT, "t", LF >>
    /\ retv = 1

\* C20: a file that is not UTF-8 is reported by name on stderr, is not written, makes
\* the status non-zero for the rest of the run, and does not end the run: after its
\* call main is in its loop at the next file listed, which it goes on to call, or has
\* returned; and a run that returns has called _fix_file for every file
C20_UndecodableAlone ==
    /\ \A k \in 1..Len(calls) :
           Undecodable(calls[k]) =>
               /\ \E n \in 1..Len(stderr) : stderr[n] = NonUtf8(calls[k].filename)
               /\ calls[k].after = calls[k].before
               /\ retv # 0
               /\ calls[k].filename = filenames[k]
               /\ k < Len(calls) \/ pc = "returned" \/ (pc = "loop" /\ index = k + 1)
    /\ Returned("main") => Len(calls) = Len(filenames)

\* the first file is not UTF-8, the second is reordered after it
C20_Witness ==
    /\ Returned("main")
    /\ filenames = << "f", "g" >>
    /\ Undecodable(calls[1]) /\ Changed(calls[2])
    /\ disk["f"] = << X98, KW_IMPORT, "a", LF >>
    /\ disk["g"] = << KW_IMPORT, "a", LF, LF, KW_IMPORT, "t", LF >>
    /\ stderr[Len(stderr) - 1] = NonUtf8("f")
    /\ retv = 1

\* the bytes read decode to a text that the token generator raises on
Untokenizable(call) ==
    /\ ~decode(call.read).error
    /\ partition_source(NormalizeNewlines(decode(call.read).text)).raised

\* C21: a file whose contents cannot be tokenized is not written, and the run goes on:
\* after its call main is in its loop at the next file listed or has returned, and a
\* run that returns has called _fix_file for every file
C21_UntokenizableAlone ==
    /\ \A k \in 1..Len(calls) :
           Untokenizable(calls[k]) =>
               /\ calls[k].after = calls[k].before
               /\ k < Len(calls) \/ pc = "returned" \/ (pc = "loop" /\ index = k + 1)
    /\ Returned("main") => Len(calls) = Len(filenames)

\* the turn by turn scan ends with what partition_source gives in one go
ScanAgrees == (pc = "partitioned" /\ scan # << >>) => partitioned = partition_source(src)

\* the loop looks for the start of a region
Searching == Scanning /\ scan.st.pending = "None"
\* the token starts neither a comment, a blank line, an import at column 0 nor, before
\* the first import, a string, and is not the end marker
OtherToken ==
    /\ Token.type \notin {"COMMENT", "NL", "ENDMARKER", "TOKENERROR"}
    /\ ~(Token.type = "NAME" /\ Token.scol = 0 /\ Token.text \in {KW_IMPORT, KW_FROM})
    /\ ~(Token.type = "STRING" /\ ~scan.st.seen_import)
ImportToken == Token.type = "NAME" /\ Token.text \in {KW_IMPORT, KW_FROM}

\* C22: a token that starts no region, met while the loop looks for the start of one,
\* adds one CODE region that runs from the end of the last region to the end of the
\* text, and ends the loop; once the loop has ended no token is looked at, and the
\* regions returned are the ones found until then, so an import after that point, or
\* an indented one, gives no IMPORT region
C22_CodeIsRest ==
    [][/\ (Searching /\ OtherToken) =>
              /\ scan'.st.stop
              /\ scan'.st.chunks =
                     Append(scan.st.chunks, CodePartition(CODE, SliceFrom(src, scan.st.startpos)))
       /\ (Searching /\ ImportToken /\ Token.scol # 0) =>
              scan'.st.stop /\ Last(scan'.st.chunks).code_type = CODE
       /\ (pc = "scanning" /\ scan.st.stop) =>
              /\ pc' = "partitioned"
              /\ partitioned'.chunks = Kept(scan.st.chunks)]_vars

\* code, then an import: one CODE region holds both lines
C22_Witness ==
    /\ pc = "partitioned" /\ scan # << >>
    /\ src = << "x", LF, KW_IMPORT, "a", LF >>
    /\ partitioned.chunks = << CodePartition(CODE, src) >>

\* partition_source returned the regions of the text that was scanned
Scanned == pc = "partitioned" /\ scan # << >> /\ ~partitioned.raised /\ ~partitioned.asserted
StartsWithQuote(chunk) == chunk.src # << >> /\ chunk.src[1] = QUOTE

CommentLine == Searching /\ Token.type = "COMMENT" /\ Token.text # NOREORDER
\* what fix_file_contents returns for the text scanned, with no directive
FixedScanned == fix_file_contents(src, << >>, {}, Replacements_make(<< >>))
TypesOf(chunks) == [i \in 1..Len(chunks) |-> chunks[i].code_type]

\* C24: a comment line without noreorder opens a PRE_IMPORT_CODE region before the
\* first import and a CODE region after it; the NL or end marker that follows emits
\* the region, and the loop goes on looking for the start of a region; and for a text
\* that begins with such a comment line fix_file_contents, when it returns, returns a
\* text that begins with it
C24_CommentLines ==
    /\ [][/\ CommentLine =>
                 /\ scan'.st.pending = (IF scan.st.seen_import THEN CODE ELSE PRE_IMPORT_CODE)
                 /\ scan'.st.ending = TERMINATES_COMMENT
                 /\ scan'.st.chunks = scan.st.chunks /\ ~scan'.st.stop
          /\ (Scanning /\ scan.st.ending = TERMINATES_COMMENT /\ scan.st.pending # "None") =>
                 /\ Token.type \in {"NL", "ENDMARKER"}
                 /\ scan'.st.chunks = Append(scan.st.chunks,
                                             CodePartition(scan.st.pending, Last(scan'.st.chunks).src))
                 /\ scan'.st.pending = "None" /\ ~scan'.st.stop
                 /\ scan'.st.seen_import = scan.st.seen_import]_vars
    /\ [](( /\ Scanned
            /\ Len(src) >= 2 /\ SubSeq(src, 1, 2) = << HASH, LF >>
            /\ ~FixedScanned.raised)
          => /\ partitioned.chunks[1] = CodePartition(PRE_IMPORT_CODE, << HASH, LF >>)
             /\ Len(FixedScanned.out) >= 2 /\ SubSeq(FixedScanned.out, 1, 2) = << HASH, LF >>
             /\ FixedScanned.partitioned[1] = CodePartition(PRE_IMPORT_CODE, << HASH, LF >>))

\* a comment, an import, a comment: the first comment is a PRE_IMPORT_CODE region that
\* fix_file_contents leaves at the top, the second a CODE region
C24_Witness ==
    /\ Scanned
    /\ src = << HASH, LF, KW_IMPORT, "a", LF, HASH, LF >>
    /\ TypesOf(partitioned.chunks) = << PRE_IMPORT_CODE, IMPORT, CODE >>
    /\ FixedScanned.out = src

\* the index of the last IMPORT or PRE_IMPORT_CODE region of the list, 0 if there is none
LastNonCombinable ==
    IF \E i \in 1..Len(partitions) : partitions[i].code_type \in {IMPORT, PRE_IMPORT_CODE}
    THEN CHOOSE i \in 1..Len(partitions) :
             /\ partitions[i].code_type \in {IMPORT, PRE_IMPORT_CODE}
             /\ \A j \in (i + 1)..Len(partitions) : partitions[j].code_type \notin {IMPORT, PRE_IMPORT_CODE}
    ELSE 0
\* the texts of the regions after it, one after the other
TrailingText == _partitions_to_src(SubSeq(partitions, LastNonCombinable + 1, Len(partitions)))
Combined == Returned("combine_trailing_code_chunks")

\* C25 as claimed: the regions after the last IMPORT or PRE_IMPORT_CODE region come
\* back as one CODE region whose text is their texts trimmed and ended by one line
\* feed, and the regions before are unchanged
C25_TrailingTrimmed ==
    Combined =>
        IF LastNonCombinable = Len(partitions) THEN returned = partitions
        ELSE returned = Append(SubSeq(partitions, 1, LastNonCombinable),
                               CodePartition(CODE, Append(Strip(TrailingText), LF)))

\* C25: the regions after the last IMPORT or PRE_IMPORT_CODE region come back as one
\* CODE region whose text is their texts one after the other, blank lines and line
\* ends as they were, and the regions before are unchanged
C25_TrailingJoined ==
    Combined =>
        IF LastNonCombinable = Len(partitions) THEN returned = partitions
        ELSE returned = Append(SubSeq(partitions, 1, LastNonCombinable),
                               CodePartition(CODE, TrailingText))

\* an import, a blank line and code that ends with a blank line: the CODE region
\* begins and ends with a blank line
C25_Witness ==
    /\ Combined
    /\ partitions = << CodePartition(IMPORT, << KW_IMPORT, "a", LF >>),
                       CodePartition(NON_CODE, << LF >>),
                       CodePartition(CODE, << "x", LF, LF >>) >>
    /\ returned = << CodePartition(IMPORT, << KW_IMPORT, "a", LF >>),
                     CodePartition(CODE, << LF, "x", LF, LF >>) >>

\* a region is open: its start was found and its end not yet
Pending == pc = "scanning" /\ scan.st.pending # "None" /\ ~scan.st.stop
\* the loop ended with a CODE region that runs from the start of the open region, which
\* is the end of the last region emitted, to the end of the text
HaltedWithRest ==
    /\ scan.st.stop /\ ~scan.st.raised
    /\ Last(scan.st.chunks) = CodePartition(CODE, SliceFrom(src, scan.st.startpos))

\* C26: a region that is open is closed later: one of its terminating tokens emits it
\* with its type, from where it started to the end of that token, or the loop ends
\* with the CODE rest that starts where the region started; and when partition_source
\* is through a text that tokenizes, no region is left open
C26_EventuallyClosed ==
    /\ Pending ~> (pc = "scanning" /\ (scan.st.pending = "None" \/ scan.st.stop))
    /\ [][Pending =>
              \/ scan'.st.pending = scan.st.pending /\ scan'.st.chunks = scan.st.chunks
                     /\ scan'.st.startpos = scan.st.startpos /\ ~scan'.st.stop
              \/ /\ Token.type \in scan.st.ending
                 /\ scan'.st.pending = "None"
                 /\ scan'.st.chunks =
                        Append(scan.st.chunks,
                               CodePartition(scan.st.pending,
                                             Slice(src, scan.st.startpos, scan'.st.startpos)))
              \/ scan'.st.startpos = scan.st.startpos /\ HaltedWithRest'
              \/ scan'.st.raised]_vars
    /\ []((pc = "partitioned" /\ scan # << >> /\ ~scan.st.raised) =>
              (scan.st.pending = "None" \/ HaltedWithRest))

\* an import without line feed at the end of the text: the NEWLINE token the tokenizer
\* adds closed its region
C26_Witness ==
    /\ Scanned
    /\ src = << HASH, LF, KW_IMPORT, "p" >>
    /\ scan.st.pending = "None" /\ ~scan.st.stop
    /\ partitioned.chunks = << CodePartition(PRE_IMPORT_CODE, << HASH, LF >>),
                               CodePartition(IMPORT, << KW_IMPORT, "p" >>) >>

\* no PRE_IMPORT_CODE region comes after an IMPORT region
NoPreAfterImport(chunks) ==
    \A i, j \in 1..Len(chunks) :
        (i < j /\ chunks[i].code_type = IMPORT) => chunks[j].code_type # PRE_IMPORT_CODE

\* C28: seen_import is set exactly from the first import region on (open or emitted)
\* and stays set; while it is set no PRE_IMPORT_CODE region is open; and neither the
\* list in the making nor the list returned holds a PRE_IMPORT_CODE region after an
\* IMPORT region
C28_NoPreImportAfterImport ==
    /\ []((pc = "scanning") =>
              /\ scan.st.seen_import <=>
                     \/ scan.st.pending = IMPORT
                     \/ \E i \in 1..Len(scan.st.chunks) : scan.st.chunks[i].code_type = IMPORT
              /\ scan.st.seen_import => scan.st.pending # PRE_IMPORT_CODE
              /\ NoPreAfterImport(scan.st.chunks))
    /\ []((pc = "partitioned" /\ scan # << >>) => NoPreAfterImport(partitioned.chunks))
    /\ [][(pc = "scanning" /\ scan.st.seen_import) => (pc' = "scanning" => scan'.st.seen_import)]_vars

\* an import, a comment, a string: the comment is a CODE region and the string starts
\* the CODE rest
C28_Witness ==
    /\ Scanned
    /\ src = << KW_IMPORT, "a", LF, HASH, LF, QUOTE, QUOTE, LF >>
    /\ scan.st.seen_import
    /\ partitioned.chunks = << CodePartition(IMPORT, << KW_IMPORT, "a", LF >>),
                               CodePartition(CODE, << HASH, LF >>),
                               CodePartition(CODE, << QUOTE, QUOTE, LF >>) >>

\* the import regions that remove_imports is called on: the imports of the file and
\* the added ones, one name each
RemovalCandidates ==
    ImportsOf(separate_comma_imports(
                  add_imports(combine_trailing_code_chunks(
                                  partition_source(NormalizeNewlines(contents)).chunks),
                              to_add)))
\* the import regions of the output whose key is in to_remove
RemovedKeyKept ==
    {i \in 1..Len(OutImports) : key(import_obj_from_str(OutImports[i].src)) \in to_remove}
\* region p is what a replacement rule makes of a candidate whose key is not in to_remove
ReplacedInto(p) ==
    \E k \in 1..Len(RemovalCandidates) :
        /\ key(import_obj_from_str(RemovalCandidates[k].src)) \notin to_remove
        /\ DescriptorOf(RemovalCandidates[k]) # DescriptorOf(p)
        /\ DescriptorOf(replace_imports(<< RemovalCandidates[k] >>,
                                        Replacements_make(replace_args))[1]) = DescriptorOf(p)

\* C27 as stated: whatever the directives are, no import of the output's import block
\* has a key in to_remove, an import produced by a replacement rule included
C27_NoRemovedKey ==
    (Fixed /\ ~first.raised) => RemovedKeyKept = {}

\* C27: an import of the output's import block has a key in to_remove only when a
\* replacement rule made it of an import whose key is not in to_remove (imports are
\* removed before they are replaced); without replacement rules no import of the
\* output has a key in to_remove, an added import included
C27_RemovedUnlessReplaced ==
    (Fixed /\ ~first.raised) =>
        /\ \A i \in RemovedKeyKept : ReplacedInto(OutImports[i])
        /\ replace_args = << >> => RemovedKeyKept = {}

\* "from a import b" is added to a file of code and removed again: the output has no
\* import; and under the rule a=t the file's "from a import b" becomes the removed
\* "from t import b"
C27_Witness ==
    /\ Fixed /\ ~first.raised
    /\ \/ /\ contents = << "x", LF >>
          /\ to_add = << << KW_FROM, "a", KW_IMPORT, "b" >> >>
          /\ to_remove = {ImportFromKey(<< "a" >>, << "b" >>, << >>)}
          /\ OutImports = << >>
       \/ /\ contents = << KW_FROM, "a", KW_IMPORT, "b", LF >>
          /\ to_remove = {ImportFromKey(<< "t" >>, << "b" >>, << >>)}
          /\ replace_args # << >>
          /\ first.out = << KW_FROM, "t", KW_IMPORT, "b", LF >>

\* the import regions that fix_file_contents hands to apply_import_sorting
DedupedImports == ImportsOf(first.deduped)
\* the descriptors of a list of import regions
DescriptorsOf(imports) == {DescriptorOf(imports[i]) : i \in 1..Len(imports)}
\* no two regions of the list have the same descriptor
DistinctDescriptors(imports) ==
    \A i, j \in 1..Len(imports) : i # j => DescriptorOf(imports[i]) # DescriptorOf(imports[j])

\* C29: whatever the file and the directives are, of the regions that fix_file_contents
\* hands to apply_import_sorting no IMPORT region imports more than one name and no two
\* have the same descriptor; the import regions of the output are these imports, each
\* exactly once
C29_OneRegionPerImport ==
    (Fixed /\ ~first.raised) =>
        /\ \A i \in 1..Len(DedupedImports) :
               ~is_multiple(import_obj_from_str(DedupedImports[i].src))
        /\ DistinctDescriptors(DedupedImports)
        /\ DistinctDescriptors(OutImports)
        /\ Len(OutImports) = Len(DedupedImports)
        /\ DescriptorsOf(OutImports) = DescriptorsOf(DedupedImports)

\* "import t, a" and "import a": two imports reach the sort stage, and two leave it,
\* each in its own group
C29_Witness ==
    /\ Fixed /\ ~first.raised /\ NoDirectives
    /\ contents = << KW_IMPORT, "t", COMMA, "a", LF, KW_IMPORT, "a", LF >>
    /\ Len(DedupedImports) = 2
    /\ first.out = << KW_IMPORT, "a", LF, LF, KW_IMPORT, "t", LF >>

\* text out ends with the line terminator nl, and what is before it does not end with
\* a line terminator or white space
EndsWithOne(out, nl) ==
    /\ Len(out) > Len(nl)
    /\ SubSeq(out, Len(out) - Len(nl) + 1, Len(out)) = nl
    /\ out[Len(out) - Len(nl)] \notin Whitespace

\* text out ends with the line terminator nl
EndsWith(out, nl) ==
    Len(out) >= Len(nl) /\ SubSeq(out, Len(out) - Len(nl) + 1, Len(out)) = nl
\* region last is a region that apply_import_sorting was handed and that is not CODE,
\* untouched but for a newline if it had none
KeptOf(last, deduped) ==
    \E k \in 1..Len(deduped) :
        /\ deduped[k].code_type \in {IMPORT, PRE_IMPORT_CODE}
        /\ last = IF EndsWithNewline(deduped[k].src) THEN deduped[k]
                  ELSE CodePartition(deduped[k].code_type, deduped[k].src \o << LF >>)
\* what fix_file_contents returned is empty; or its last region is the trailing code,
\* and it ends with one line terminator and no white space before it; or its last
\* region is an import or a region before the imports, as it was, and it ends with a
\* line terminator
OneTerminator(fixed) ==
    \/ fixed.out = << >>
    \/ /\ Last(fixed.partitioned).code_type = CODE
       /\ EndsWithOne(fixed.out, fixed.nl)
    \/ /\ KeptOf(Last(fixed.partitioned), fixed.deduped)
       /\ EndsWith(fixed.out, fixed.nl)

\* C30 as stated: the text that fix_file_contents returns is empty or ends with exactly
\* one line terminator, and neither blank lines nor white space of the end of the input
\* are before it
C30_NothingTrailing ==
    (Fixed /\ ~first.raised) => (first.out = << >> \/ EndsWithOne(first.out, first.nl))

\* C30: the text that fix_file_contents returns is empty or ends with a line terminator
\* (a last line without terminator got one), and no blank region of the input is at its
\* end. When it ends with the trailing code, exactly one terminator ends it, with no
\* white space before: the code is right-stripped. When it ends with an import or with
\* a region before the imports, that region is kept as it was, white space at the end
\* of its last line included. The text of a second run ends the same way
C30_OneTerminator ==
    /\ (Fixed /\ ~first.raised) => OneTerminator(first)
    /\ (pc = "refixed" /\ ~second.raised) => OneTerminator(second)

\* code, then a blank line, then a last line of white space without terminator: the
\* output is the code and one terminator, and a second run returns the same
C30_Witness ==
    /\ pc = "refixed" /\ ~first.raised /\ ~second.raised
    /\ contents = << "x", LF, LF, SP >>
    /\ first.out = << "x", LF >>
    /\ second.out = first.out

=============================================================================
